---- MODULE Spec2Model ----
(***************************************************************************)
(* AskVid: the response-selection logic of AIService (keyword extraction,  *)
(* segment matching, question classification, template composition, the    *)
(* single remote attempt with local fallback) and the per-video chat       *)
(* history kept by VideoChatStorage and the ChatInterface component.       *)
(*                                                                         *)
(* Strings are sequences of one-character strings, so that toLowerCase,    *)
(* replace, split, includes and match are computed character by character  *)
(* as the JavaScript does.                                                 *)
(***************************************************************************)
EXTENDS Integers, Sequences, FiniteSets, TLC

(***************************************************************************)
(* Bounds of the model.                                                    *)
(***************************************************************************)
\* longest transcript (number of segments) drawn for the segment matcher
MaxSegs == 4
\* longest transcript drawn for the response generator
MaxCtxSegs == 2
\* longest session list a caller hands to the store
MaxStoredSessions == 2
\* most sessions of one video in the chat view
MaxSessions == 3
\* most messages of one session in the chat view
MaxMessages == 3
\* most times the clock moves on while one chat is open
MaxTicks == 1
\* no video is submitted that would be opened at this time or later
MaxClock == 6001
MaxTabClock == 1
MaxTabSessions == 2
MaxRawSessions == 1
MaxSeconds == 700

(***************************************************************************)
(* JavaScript string primitives.                                           *)
(***************************************************************************)
LowerLetters ==
  <<"a","b","c","d","e","f","g","h","i","j","k","l","m",
    "n","o","p","q","r","s","t","u","v","w","x","y","z">>

UpperLetters ==
  <<"A","B","C","D","E","F","G","H","I","J","K","L","M",
    "N","O","P","Q","R","S","T","U","V","W","X","Y","Z">>

DigitChars == <<"0","1","2","3","4","5","6","7","8","9">>

Range(s) == { s[i] : i \in DOMAIN s }

\* String.prototype.toLowerCase, one character
ToLowerChar(c) ==
  IF \E i \in DOMAIN UpperLetters : UpperLetters[i] = c
    THEN LowerLetters[CHOOSE i \in DOMAIN UpperLetters : UpperLetters[i] = c]
    ELSE c

toLowerCase(s) == [ i \in 1..Len(s) |-> ToLowerChar(s[i]) ]

\* the regular-expression classes \w and \s
IsWordChar(c) ==
  c \in Range(LowerLetters) \cup Range(UpperLetters) \cup Range(DigitChars) \cup {"_"}

IsSpaceChar(c) == c \in {" ", "\t", "\n"}

\* s.includes(t)
Includes(s, t) ==
  \E i \in 0..(Len(s) - Len(t)) : SubSeq(s, i + 1, i + Len(t)) = t

\* list.includes(x), list.some(p) on a sequence
Contains(list, x) == \E i \in DOMAIN list : list[i] = x

\* (s.match(new RegExp(t, 'g')) || []).length for a pattern t of word
\* characters only: the matches are found left to right and do not overlap
RECURSIVE MatchCountFrom(_, _, _)
MatchCountFrom(s, t, i) ==
  IF Len(t) = 0 \/ i + Len(t) - 1 > Len(s) THEN 0
  ELSE IF SubSeq(s, i, i + Len(t) - 1) = t
         THEN 1 + MatchCountFrom(s, t, i + Len(t))
         ELSE MatchCountFrom(s, t, i + 1)

MatchCount(s, t) == MatchCountFrom(s, t, 1)

\* s.replace(/[^\w\s]/g, '')
StripNonWord(s) == SelectSeq(s, LAMBDA c : IsWordChar(c) \/ IsSpaceChar(c))

\* s.split(/\s+/): a run of white space separates two tokens; white space at
\* either end leaves an empty token there, and "" splits into [""]
RECURSIVE SplitWsFrom(_, _, _, _)
SplitWsFrom(s, i, cur, out) ==
  IF i > Len(s) THEN Append(out, cur)
  ELSE IF IsSpaceChar(s[i])
         THEN IF i > 1 /\ IsSpaceChar(s[i - 1])
                THEN SplitWsFrom(s, i + 1, cur, out)
                ELSE SplitWsFrom(s, i + 1, <<>>, Append(out, cur))
         ELSE SplitWsFrom(s, i + 1, Append(cur, s[i]), out)

SplitWhitespace(s) == SplitWsFrom(s, 1, <<>>, <<>>)

\* s.split(' '): every single space separates two tokens
RECURSIVE SplitSpaceFrom(_, _, _, _)
SplitSpaceFrom(s, i, cur, out) ==
  IF i > Len(s) THEN Append(out, cur)
  ELSE IF s[i] = " "
         THEN SplitSpaceFrom(s, i + 1, <<>>, Append(out, cur))
         ELSE SplitSpaceFrom(s, i + 1, Append(cur, s[i]), out)

SplitSpace(s) == SplitSpaceFrom(s, 1, <<>>, <<>>)

\* list.join(' ')
RECURSIVE JoinSpace(_)
JoinSpace(list) ==
  IF Len(list) = 0 THEN <<>>
  ELSE IF Len(list) = 1 THEN list[1]
  ELSE list[1] \o <<" ">> \o JoinSpace(Tail(list))

\* list.slice(0, n)
Slice(list, n) == SubSeq(list, 1, IF Len(list) < n THEN Len(list) ELSE n)

\* String(n) for n >= 0
RECURSIVE DecimalString(_)
DecimalString(n) ==
  IF n < 10 THEN << DigitChars[n + 1] >>
  ELSE Append(DecimalString(n \div 10), DigitChars[(n % 10) + 1])

\* s.padStart(2, '0')
PadStart2(s) == IF Len(s) < 2 THEN <<"0">> \o s ELSE s

(***************************************************************************)
(* The inputs the model draws: questions, segment texts, video titles.     *)
(***************************************************************************)
Questions ==
  << <<>>, <<"W","h","a","t"," ","i","s"," ","t","h","e","?">>,
     <<"i","s"," ","i","t"," ","o","k">>, <<"R","e","a","c","t","?">>,
     <<"r","e","a","c","t"," ","s","t","a","t","e">>, <<"r","e","a","c","t"," ","r","e","a","c","t">>,
     <<"t","h","e"," ","b","r","a","n","d"," ","v","i","d","e","o">>, <<"H","o","w"," ","t","o"," ","s","t","a","r","t">>,
     <<"s","t","e","p","s"," ","o","f"," ","r","e","a","c","t"," ","h","o","o","k","s">>, <<"s","u","m","m","a","r","i","z","e"," ","r","e","a","c","t">>,
     <<"s","a","l","e","s"," ","s","t","r","a","t","e","g","y">>, <<" "," ","A","r","t"," "," ">>,
     <<"s","h","o","w"," ","m","e"," ","a"," ","c","o","u","r","s","e">> >>

SegmentTexts ==
  << <<"R","e","a","c","t"," ","h","o","o","k","s">>, <<"r","e","a","c","t"," ","r","e","a","c","t"," ","s","t","a","t","e">>,
     <<"s","t","a","r","t"," ","t","h","e"," ","a","r","t">> >>

Titles ==
  << <<>>, <<"R","e","a","c","t"," ","H","o","o","k","s"," ","G","u","i","d","e">> >>


\* seconds between the starts of two transcript segments, and a segment's
\* duration, as the transcription service generates them
SegmentSpacing == 28
SegmentDuration == 22

\* generateContextualTranscript: the i-th text becomes the i-th segment
MakeSegments(texts) ==
  [ i \in 1..Len(texts) |->
      [ text |-> texts[i], start |-> (i - 1) * SegmentSpacing, duration |-> SegmentDuration ] ]

\* transcribeVideo: fullText = segments.map(s => s.text).join(' ')
FullText(segs) == JoinSpace([ i \in 1..Len(segs) |-> segs[i].text ])

RECURSIVE SeqsUpTo(_, _)
SeqsUpTo(S, n) ==
  IF n = 0 THEN { <<>> }
  ELSE LET shorter == SeqsUpTo(S, n - 1)
       IN  shorter \cup { Append(s, x) : s \in { t \in shorter : Len(t) = n - 1 }, x \in S }

(***************************************************************************)
(* State.                                                                  *)
(***************************************************************************)
VARIABLES
  transcript,        \* AIService.transcript
  segments,          \* AIService.segments
  videoTitle,        \* AIService.videoTitle
  videoUrl,          \* AIService.videoUrl
  geminiConfigured,  \* what geminiService.isConfigured() answers
  aiCall,            \* the generateResponse / generateDetailedResponse call in progress
  probe,             \* the last call of a pure helper or of the store: its input and its result
  localStorage,      \* the value of the key 'askvid_video_chats'
  clock,             \* Date.now(), in milliseconds
  currentView,       \* App.currentView
  videoData,         \* App.videoData
  submit,            \* the handleVideoSubmit in progress
  processingError,   \* App.processingError
  chatSessions,      \* ChatInterface.chatSessions
  currentSessionId,  \* ChatInterface.currentSessionId
  isTyping,          \* ChatInterface.isTyping
  pending,           \* the handleSendMessage calls waiting for their reply, each with what it closed over
  tabs,              \* the ChatInterfaces of two browser tabs that share the localStorage
  flows,             \* the handleSubmit / handleVideoSubmit calls in progress when submits overlap
  steps,             \* VideoProcessor.steps: the status of each processing step
  isLoading,         \* LandingPage.isLoading
  lastError          \* the error the last ChatInterface handler threw, if any

aiVars == << transcript, segments, videoTitle, videoUrl, geminiConfigured, aiCall >>

submitVars == << flows, steps, isLoading >>

vars ==
  << transcript, segments, videoTitle, videoUrl, geminiConfigured, aiCall, probe,
     localStorage, clock, currentView, videoData, submit, processingError,
     chatSessions, currentSessionId, isTyping, pending, tabs, flows, steps, isLoading,
     lastError >>

(***************************************************************************)
(* AIService: keyword extraction and the segment matcher.                  *)
(***************************************************************************)
stopWords ==
  << <<"w","h","a","t">>, <<"h","o","w">>, <<"w","h","e","n">>, <<"w","h","e","r","e">>,
     <<"w","h","y">>, <<"w","h","o">>, <<"i","s">>, <<"a","r","e">>,
     <<"t","h","e">>, <<"a">>, <<"a","n">>, <<"a","n","d">>,
     <<"o","r">>, <<"b","u","t">>, <<"i","n">>, <<"o","n">>,
     <<"a","t">>, <<"t","o">>, <<"f","o","r">>, <<"o","f">>,
     <<"w","i","t","h">>, <<"b","y">>, <<"a","b","o","u","t">> >>

\* extractKeywords without its toLowerCase()
extractKeywordsCaseSensitive(question) ==
  Slice(SelectSeq(SplitWhitespace(StripNonWord(question)),
                  LAMBDA word : Len(word) > 2 /\ ~Contains(stopWords, word)),
        8)

\* AIService.extractKeywords
extractKeywords(question) ==
  Slice(SelectSeq(SplitWhitespace(StripNonWord(toLowerCase(question))),
                  LAMBDA word : Len(word) > 2 /\ ~Contains(stopWords, word)),
        8)

\* the score findRelevantSegments gives one segment: for each keyword found
\* in the lower-cased text, twice the number of its matches
RECURSIVE segmentScore(_, _)
segmentScore(keywords, text) ==
  IF Len(keywords) = 0 THEN 0
  ELSE LET segmentText  == toLowerCase(text)
           keywordLower == toLowerCase(Head(keywords))
           rest         == segmentScore(Tail(keywords), text)
       IN  IF Includes(segmentText, keywordLower)
             THEN MatchCount(segmentText, keywordLower) * 2 + rest
             ELSE rest

\* Array.prototype.sort((a, b) => b.score - a.score): descending by score,
\* and stable, so items of equal score keep their order
\* an unstable sort: an item is put before the items of equal score
RECURSIVE InsertByScoreUnstable(_, _)
InsertByScoreUnstable(sorted, item) ==
  IF Len(sorted) = 0 THEN << item >>
  ELSE IF Head(sorted).score > item.score
         THEN << Head(sorted) >> \o InsertByScoreUnstable(Tail(sorted), item)
         ELSE << item >> \o sorted

RECURSIVE InsertByScore(_, _)
InsertByScore(sorted, item) ==
  IF Len(sorted) = 0 THEN << item >>
  ELSE IF Head(sorted).score >= item.score
         THEN << Head(sorted) >> \o InsertByScore(Tail(sorted), item)
         ELSE << item >> \o sorted

RECURSIVE sortByScore(_)
sortByScore(items) ==
  IF Len(items) = 0 THEN <<>>
  ELSE InsertByScore(sortByScore(SubSeq(items, 1, Len(items) - 1)), items[Len(items)])

\* the { segment, score } entries findRelevantSegments collects: segments
\* in transcript order, those of score 0 left out
scoredSegments(keywords, segs) ==
  SelectSeq([ i \in 1..Len(segs) |->
                [ segment |-> segs[i], score |-> segmentScore(keywords, segs[i].text) ] ],
            LAMBDA item : item.score > 0)

\* AIService.findRelevantSegments, on the segments the service holds
findRelevantSegments(question, segs) ==
  LET top == Slice(sortByScore(scoredSegments(extractKeywords(question), segs)), 3)
  IN  [ i \in 1..Len(top) |-> top[i].segment ]

\* a format that writes the seconds without padding
formatTimestampUnpadded(seconds) ==
  DecimalString(seconds \div 60) \o <<":">> \o DecimalString(seconds % 60)

\* AIService.formatTimestamp
formatTimestamp(seconds) ==
  LET minutes          == seconds \div 60
      remainingSeconds == seconds % 60
  IN  DecimalString(minutes) \o <<":">> \o PadStart2(DecimalString(remainingSeconds))

\* TranscriptionService.formatTimestamp
transcriptionFormatTimestamp(seconds) ==
  LET minutes          == seconds \div 60
      remainingSeconds == seconds % 60
  IN  DecimalString(minutes) \o <<":">> \o PadStart2(DecimalString(remainingSeconds))

(***************************************************************************)
(* AIService: question classification.                                     *)
(***************************************************************************)
summaryWords ==
  << <<"s","u","m","m","a","r","y">>, <<"s","u","m","m","a","r","i","z","e">>, <<"m","a","i","n"," ","p","o","i","n","t","s">> >>

explanationWords ==
  << <<"h","o","w">>, <<"e","x","p","l","a","i","n">>, <<"w","h","a","t"," ","i","s">> >>

exampleWords ==
  << <<"e","x","a","m","p","l","e">>, <<"d","e","m","o","n","s","t","r","a","t","e">>, <<"s","h","o","w"," ","m","e">> >>

processWords ==
  << <<"p","r","o","c","e","s","s">>, <<"s","t","e","p","s">>, <<"m","e","t","h","o","d">> >>

\* keywords.some(keyword => text.includes(keyword))
SomeIncluded(text, keywords) == \E i \in DOMAIN keywords : Includes(text, keywords[i])

\* a classification that tests the rules from the last to the first
categorizeQuestionLastRuleFirst(question) ==
  LET questionLower == toLowerCase(question)
  IN  IF SomeIncluded(questionLower, processWords) THEN "process"
      ELSE IF SomeIncluded(questionLower, exampleWords) THEN "example"
      ELSE IF SomeIncluded(questionLower, explanationWords) THEN "explanation"
      ELSE IF SomeIncluded(questionLower, summaryWords) THEN "summary"
      ELSE "default"

\* AIService.categorizeQuestion
categorizeQuestion(question) ==
  LET questionLower == toLowerCase(question)
  IN  IF SomeIncluded(questionLower, summaryWords) THEN "summary"
      ELSE IF SomeIncluded(questionLower, explanationWords) THEN "explanation"
      ELSE IF SomeIncluded(questionLower, exampleWords) THEN "example"
      ELSE IF SomeIncluded(questionLower, processWords) THEN "process"
      ELSE "default"

techKeywords ==
  << <<"p","r","o","g","r","a","m","m","i","n","g">>, <<"c","o","d","e">>, <<"s","o","f","t","w","a","r","e">>,
     <<"t","e","c","h","n","o","l","o","g","y">>, <<"a","i">>, <<"m","a","c","h","i","n","e"," ","l","e","a","r","n","i","n","g">>,
     <<"w","e","b"," ","d","e","v","e","l","o","p","m","e","n","t">>, <<"a","p","p">> >>

businessKeywords ==
  << <<"b","u","s","i","n","e","s","s">>, <<"m","a","r","k","e","t","i","n","g">>, <<"b","r","a","n","d">>,
     <<"s","t","a","r","t","u","p">>, <<"e","n","t","r","e","p","r","e","n","e","u","r">>, <<"s","t","r","a","t","e","g","y">>,
     <<"s","a","l","e","s">> >>

learningKeywords ==
  << <<"l","e","a","r","n">>, <<"s","t","u","d","y">>, <<"e","d","u","c","a","t","i","o","n">>,
     <<"s","k","i","l","l">>, <<"c","o","u","r","s","e">>, <<"t","u","t","o","r","i","a","l">>,
     <<"p","r","a","c","t","i","c","e">> >>

\* AIService.categorizeGeneralQuestion
categorizeGeneralQuestion(question) ==
  LET questionLower == toLowerCase(question)
  IN  IF SomeIncluded(questionLower, techKeywords) THEN "technology"
      ELSE IF SomeIncluded(questionLower, businessKeywords) THEN "business"
      ELSE IF SomeIncluded(questionLower, learningKeywords) THEN "learning"
      ELSE "general"

videoKeywords ==
  << <<"v","i","d","e","o">>, <<"t","r","a","n","s","c","r","i","p","t">>, <<"s","p","e","a","k","e","r">>,
     <<"m","e","n","t","i","o","n","e","d">>, <<"d","i","s","c","u","s","s","e","d">>, <<"e","x","p","l","a","i","n","e","d">>,
     <<"s","a","i","d">>, <<"t","a","l","k","e","d"," ","a","b","o","u","t">>, <<"c","o","v","e","r","e","d">>,
     <<"e","x","a","m","p","l","e">>, <<"d","e","m","o","n","s","t","r","a","t","i","o","n">>, <<"t","u","t","o","r","i","a","l">>,
     <<"l","e","s","s","o","n">>, <<"c","o","n","t","e","n","t">>, <<"t","o","p","i","c">>,
     <<"s","u","b","j","e","c","t">>, <<"t","i","m","e","s","t","a","m","p">>, <<"m","i","n","u","t","e">>,
     <<"s","e","c","o","n","d">> >>

\* words of more than 3 characters of s.toLowerCase().split(' ')
LongWords(s) == SelectSeq(SplitSpace(toLowerCase(s)), LAMBDA word : Len(word) > 3)

\* AIService.hasTranscriptOverlap
hasTranscriptOverlap(question, transcriptText) ==
  IF Len(transcriptText) = 0 THEN FALSE
  ELSE SomeIncluded(toLowerCase(transcriptText), LongWords(question))

\* AIService.isQuestionVideoRelated
isQuestionVideoRelated(question, title, transcriptText) ==
  LET questionLower == toLowerCase(question)
  IN  \/ SomeIncluded(questionLower, videoKeywords)
      \/ SomeIncluded(questionLower, LongWords(title))
      \/ hasTranscriptOverlap(question, transcriptText)

(***************************************************************************)
(* AIService: response templates.  A response text is a sequence of        *)
(* string fragments: the literal parts of a template (the long ones        *)
(* shortened to their first words) and, character by character, the parts  *)
(* interpolated into it.                                                   *)
(***************************************************************************)
Lit(s) == << s >>

\* the JavaScript value undefined, where a string may stand
undefined == << "undefined" >>

\* Math.random() in thousandths: the draws the model makes
RandomUnit == { 0, 500, 999 }

\* text.substring(0, 80)
ExcerptLength == 80
substring80(text) == Slice(text, ExcerptLength)

\* table[key] || table[fallback]: an object literal has only the keys written
\* in it, any other key reads undefined
lookup(table, key) == IF key \in DOMAIN table THEN table[key] ELSE undefined

\* table[key] alone, without "|| table[fallback]"
lookupNoFallback(table, key, fallback) == lookup(table, key)

lookupOr(table, key, fallback) ==
  IF lookup(table, key) # undefined THEN lookup(table, key) ELSE lookup(table, fallback)

\* what a call evaluates to when it throws a TypeError
TypeError == << "TypeError" >>

\* responseArray[Math.floor(Math.random() * responseArray.length)]: reading
\* a property of undefined throws
pickRandom(responseArray, r) ==
  IF responseArray = undefined THEN TypeError
  ELSE responseArray[((r * Len(responseArray)) \div 1000) + 1]

\* the sentence a detailed template adds when a second segment matched
secondSegmentNote(segs, before, after) ==
  IF Len(segs) > 1
    THEN Lit(before) \o formatTimestamp(segs[2].start) \o Lit(after)
    ELSE <<>>

\* AIService.generateBriefVideoResponse
generateBriefVideoResponse(question, segs, r) ==
  LET primarySegment == segs[1]
      questionType   == categorizeQuestion(question)
      at             == formatTimestamp(primarySegment.start)
      excerpt        == substring80(primarySegment.text)
      responses ==
        [ summary |->
            << Lit("At ") \o at \o Lit(": \"") \o excerpt \o Lit("...\" This covers the main points."),
               Lit("Key content at ") \o at \o Lit(": \"") \o excerpt \o Lit("...\"") >>,
          explanation |->
            << Lit("The video explains at ") \o at \o Lit(": \"") \o excerpt \o Lit("...\""),
               Lit("At ") \o at \o Lit(", it's explained: \"") \o excerpt \o Lit("...\"") >>,
          example |->
            << Lit("Example at ") \o at \o Lit(": \"") \o excerpt \o Lit("...\""),
               Lit("The video shows at ") \o at \o Lit(": \"") \o excerpt \o Lit("...\"") >>,
          default |->
            << Lit("At ") \o at \o Lit(": \"") \o excerpt \o Lit("...\""),
               Lit("Video content at ") \o at \o Lit(": \"") \o excerpt \o Lit("...\"") >> ]
  IN  pickRandom(lookupOr(responses, questionType, "default"), r)

\* AIService.generateBriefVideoGeneralResponse
generateBriefVideoGeneralResponse(question, title, r) ==
  LET responses ==
        << Lit("I couldn't find specific details about that in \"") \o title
             \o Lit("\". Try asking about main topics discussed."),
           Lit("That topic isn't clearly covered in the video transcript. Ask about specific concepts mentioned."),
           Lit("No specific information found about that in \"") \o title
             \o Lit("\". Try a different question about the content.") >>
  IN  pickRandom(responses, r)

\* AIService.generateBriefGeneralResponse
generateBriefGeneralResponse(question, r) ==
  LET questionCategory == categorizeGeneralQuestion(question)
      responses ==
        [ technology |->
            << Lit("That's a tech question that requires current documentation for accurate details."),
               Lit("For technical topics, I'd recommend checking official docs and expert resources."),
               Lit("Tech questions need up-to-date sources for the most accurate information.") >>,
          business |->
            << Lit("Business strategies depend on specific contexts. Consult current business resources."),
               Lit("That's a business question best answered by industry experts and current market data."),
               Lit("Business topics require context-specific advice from professional sources.") >>,
          learning |->
            << Lit("Learning approaches vary by person. Explore educational platforms for your style."),
               Lit("That's a learning question - check reputable educational resources for guidance."),
               Lit("Learning strategies are personal. Find what works best for your goals.") >>,
          general |->
            << Lit("That's an interesting question. Check authoritative sources for detailed information."),
               Lit("For comprehensive info on that topic, consult expert sources and documentation."),
               Lit("That requires detailed research from reliable, current sources.") >> ]
  IN  pickRandom(lookupOr(responses, questionCategory, "general"), r)

\* AIService.generateDetailedVideoResponse
generateDetailedVideoResponse(question, segs, r) ==
  LET primarySegment == segs[1]
      questionType   == categorizeQuestion(question)
      at             == formatTimestamp(primarySegment.start)
      quoted         == Lit(":\n\n\"") \o primarySegment.text \o Lit("\"\n\n")
      responses ==
        [ summary |->
            << Lit("Based on my comprehensive analysis of the video content, here's a detailed summary of what's covered at ")
                 \o at \o quoted \o Lit("This section provides a thorough overview [...] ")
                 \o secondSegmentNote(segs, "Additional context is provided at ", ", where the discussion expands [...]")
                 \o Lit("\n\nThe comprehensive approach taken in this video [...]"),
               Lit("Let me provide you with an in-depth summary of the content discussed at ")
                 \o at \o quoted \o Lit("This segment represents a crucial part [...]\n\n")
                 \o secondSegmentNote(segs, "The narrative continues at ", " with complementary information [...]")
                 \o Lit(" This structured approach demonstrates [...]") >>,
          explanation |->
            << Lit("The video provides an excellent detailed explanation starting at ")
                 \o at \o quoted \o Lit("This explanation is particularly valuable [...] ")
                 \o secondSegmentNote(segs, "Further elaboration occurs at ", ", where additional nuances [...]")
                 \o Lit("\n\nThis comprehensive approach to explanation [...]"),
               Lit("Here's a comprehensive breakdown of the explanation provided at ")
                 \o at \o quoted \o Lit("The explanation follows a well-structured format [...] ")
                 \o secondSegmentNote(segs, "This theme continues at ", " with additional examples and case studies.")
                 \o Lit("\n\nThe depth and clarity of this explanation [...]") >>,
          example |->
            << Lit("The video presents an excellent practical example at ")
                 \o at \o quoted \o Lit("This example is particularly effective [...] ")
                 \o secondSegmentNote(segs, "Additional examples and case studies are presented at ", ", further reinforcing [...]")
                 \o Lit("\n\nThis approach of combining theoretical knowledge [...]"),
               Lit("Let me walk you through the detailed example provided at ")
                 \o at \o quoted \o Lit("This example is masterfully chosen [...] ")
                 \o secondSegmentNote(segs, "This realistic approach continues at ", " with additional scenarios and variations.")
                 \o Lit("\n\nBy providing such detailed, realistic examples [...]") >>,
          default |->
            << Lit("Based on my detailed analysis of the video content at ")
                 \o at \o quoted \o Lit("This section represents a significant contribution [...] ")
                 \o secondSegmentNote(segs, "The content builds upon itself, with additional insights provided at ", " that expand and deepen [...]")
                 \o Lit("\n\nThis thorough approach to content creation [...]"),
               Lit("Here's a comprehensive analysis of the content discussed at ")
                 \o at \o quoted \o Lit("This segment exemplifies the video's overall approach [...] ")
                 \o secondSegmentNote(segs, "This balanced approach continues throughout the video, with complementary information at ", " that reinforces [...]")
                 \o Lit("\n\nThe result is content that is both immediately useful [...]") >> ]
  IN  pickRandom(lookupOr(responses, questionType, "default"), r)

\* AIService.generateDetailedVideoGeneralResponse
generateDetailedVideoGeneralResponse(question, title, r) ==
  LET responses ==
        << Lit("I've conducted a thorough analysis of \"") \o title
             \o Lit("\" and while I couldn't locate specific information [...]"),
           Lit("After analyzing the complete transcript of \"") \o title
             \o Lit("\", I wasn't able to find specific content [...]") >>
  IN  pickRandom(responses, r)

\* AIService.generateDetailedGeneralResponse
generateDetailedGeneralResponse(question, r) ==
  LET questionCategory == categorizeGeneralQuestion(question)
      responses ==
        [ technology |->
            << Lit("That's an excellent technology question [...] please add your Gemini API key to unlock full AI capabilities."),
               Lit("Your technology question addresses an important area [...] With your Gemini API key configured, [...]") >>,
          business |->
            << Lit("That's a thoughtful business question [...] please add your Gemini API key to unlock comprehensive AI capabilities."),
               Lit("Your business question addresses an important strategic area [...] With Gemini AI enabled, [...]") >>,
          learning |->
            << Lit("That's an excellent question about learning and skill development. [...] please add your Gemini API key [...]"),
               Lit("Your learning question touches on some fundamental aspects [...] With Gemini AI configured, [...]") >>,
          general |->
            << Lit("That's a fascinating question [...] please add your Gemini API key to unlock full conversational AI capabilities."),
               Lit("Your question addresses an important topic [...] With Gemini AI enabled, [...]") >> ]
  IN  pickRandom(lookupOr(responses, questionCategory, "general"), r)

(***************************************************************************)
(* AIService: brief-mode post-processing of a remote response.             *)
(***************************************************************************)
IsSentenceEnd(c) == c \in {".", "!", "?"}

\* content.split(/[.!?]+/): the piece that starts at from ends before the
\* next run of . ! ?, and the next piece starts after that run; the text
\* after the last run is a piece too, empty when the content ends with it
RECURSIVE SplitSentencesFrom(_, _, _)
SplitSentencesFrom(s, from, out) ==
  LET ends == { i \in from..Len(s) : IsSentenceEnd(s[i]) }
      end  == CHOOSE i \in ends : \A j \in ends : i <= j
      rest == { i \in (end + 1)..Len(s) : ~IsSentenceEnd(s[i]) }
      next == IF rest = {} THEN Len(s) + 1 ELSE CHOOSE i \in rest : \A j \in rest : i <= j
  IN  IF ends = {} THEN Append(out, SubSeq(s, from, Len(s)))
      ELSE SplitSentencesFrom(s, next, Append(out, SubSeq(s, from, end - 1)))

SplitSentences(s) == SplitSentencesFrom(s, 1, <<>>)

\* s.trim()
RECURSIVE TrimStart(_)
TrimStart(s) ==
  IF Len(s) > 0 /\ IsSpaceChar(Head(s)) THEN TrimStart(Tail(s)) ELSE s

RECURSIVE TrimEnd(_)
TrimEnd(s) ==
  IF Len(s) > 0 /\ IsSpaceChar(s[Len(s)]) THEN TrimEnd(SubSeq(s, 1, Len(s) - 1)) ELSE s

trim(s) == TrimEnd(TrimStart(s))

importantKeywords ==
  << <<"e","x","a","m","p","l","e">>, <<"s","p","e","c","i","f","i","c","a","l","l","y">>, <<"i","m","p","o","r","t","a","n","t">>,
     <<"k","e","y">>, <<"m","a","i","n">>, <<"e","s","s","e","n","t","i","a","l">>,
     <<"t","i","m","e","s","t","a","m","p">>, <<"m","i","n","u","t","e">>, <<"s","e","c","o","n","d">>,
     <<"e","x","p","l","a","i","n","s">>, <<"d","e","m","o","n","s","t","r","a","t","e","s">>, <<"s","h","o","w","s">> >>

\* AIService.isImportantSentence
isImportantSentence(sentence) == SomeIncluded(toLowerCase(sentence), importantKeywords)

\* a second sentence is kept only when shorter than this
BriefSentenceLimit == 100

\* AIService.makeBriefContent
makeBriefContent(content) ==
  LET sentences == SelectSeq(SplitSentences(content), LAMBDA s : Len(trim(s)) > 0)
      first     == trim(sentences[1]) \o <<".">>
      second    == trim(sentences[2])
  IN  IF Len(sentences) <= 2 THEN content
      ELSE IF Len(second) < BriefSentenceLimit /\ isImportantSentence(second)
             THEN first \o <<" ">> \o second \o <<".">>
             ELSE first

\* AIService.makeBrief
makeBrief(response) == [ response EXCEPT !.content = makeBriefContent(response.content) ]

(***************************************************************************)
(* The remote generation provider (geminiService).                         *)
(***************************************************************************)
\* the texts the remote provider answers with
RemoteContents ==
  { <<"O","k",".">>,
    <<"Y","e","s","."," ","T","h","e"," ","k","e","y"," ","i","s"," ","s","t","a","t","e","!"," ","M","o","r","e","?"," ","E","n","d",".">> }

\* geminiService.generateResponse / generateDetailedResponse, when it resolves
remoteResponse(content) ==
  [ content |-> content, confidence |-> 950, relevantSegments |-> <<>>,
    timestamp |-> undefined, isVideoRelated |-> TRUE ]

(***************************************************************************)
(* AIService: the local (fallback) responses.                              *)
(***************************************************************************)
\* 0.87 + Math.random() * 0.08 and 0.85 + Math.random() * 0.10, in thousandths
briefConfidence(r) == 870 + (r * 80) \div 1000

detailedConfidence(r) == 850 + (r * 100) \div 1000

\* how an async function settles: it rejects, or it resolves with a value
Thrown == [ thrown |-> TRUE ]

Returned(value) == [ thrown |-> FALSE, value |-> value ]

\* an AIResponse that carries a timestamp whenever the question is about
\* the video
fallbackResponseStampedWhenRelated(content, confidence, relevantSegments, isVideoRelated) ==
  [ content          |-> content,
    confidence       |-> confidence,
    relevantSegments |-> relevantSegments,
    timestamp        |-> IF isVideoRelated
                           THEN formatTimestamp(IF Len(relevantSegments) > 0
                                                  THEN relevantSegments[1].start ELSE 0)
                           ELSE undefined,
    isVideoRelated   |-> isVideoRelated ]

\* the AIResponse both fallbacks build around the composed text
fallbackResponse(content, confidence, relevantSegments, isVideoRelated) ==
  [ content          |-> content,
    confidence       |-> confidence,
    relevantSegments |-> relevantSegments,
    timestamp        |-> IF Len(relevantSegments) > 0
                           THEN formatTimestamp(relevantSegments[1].start)
                           ELSE undefined,
    isVideoRelated   |-> isVideoRelated ]

\* AIService.generateEnhancedFallbackResponse, after its delay; r1 and r2 are
\* its two Math.random() draws
generateEnhancedFallbackResponse(question, r1, r2) ==
  LET isVideoRelated   == isQuestionVideoRelated(question, videoTitle, transcript)
      relevantSegments == IF isVideoRelated THEN findRelevantSegments(question, segments) ELSE <<>>
      response ==
        IF isVideoRelated /\ Len(relevantSegments) > 0
          THEN generateBriefVideoResponse(question, relevantSegments, r1)
        ELSE IF isVideoRelated
          THEN generateBriefVideoGeneralResponse(question, videoTitle, r1)
          ELSE generateBriefGeneralResponse(question, r1)
  IN  IF response = TypeError THEN Thrown
      ELSE Returned(fallbackResponse(response, briefConfidence(r2), relevantSegments, isVideoRelated))

\* AIService.generateDetailedFallbackResponse, after its delay
generateDetailedFallbackResponse(question, r1, r2) ==
  LET isVideoRelated   == isQuestionVideoRelated(question, videoTitle, transcript)
      relevantSegments == IF isVideoRelated THEN findRelevantSegments(question, segments) ELSE <<>>
      response ==
        IF isVideoRelated /\ Len(relevantSegments) > 0
          THEN generateDetailedVideoResponse(question, relevantSegments, r1)
        ELSE IF isVideoRelated
          THEN generateDetailedVideoGeneralResponse(question, videoTitle, r1)
          ELSE generateDetailedGeneralResponse(question, r1)
  IN  IF response = TypeError THEN Thrown
      ELSE Returned(fallbackResponse(response, detailedConfidence(r2), relevantSegments, isVideoRelated))

localResponse(mode, question, r1, r2) ==
  IF mode = "brief" THEN generateEnhancedFallbackResponse(question, r1, r2)
  ELSE generateDetailedFallbackResponse(question, r1, r2)

(***************************************************************************)
(* VideoChatStorage: the chat sessions of every video, kept as one JSON    *)
(* text under one localStorage key.  A Date is its number of milliseconds; *)
(* in the JSON text it is an ISO string, modelled by the whole seconds and  *)
(* the three digits of milliseconds the string spells out.  The index is   *)
(* the sequence of the object's entries, in the order of its keys.         *)
(***************************************************************************)
MsPerSecond == 1000

\* an ISO string that spells out the seconds only
toISOStringSeconds(date) == [ seconds |-> date \div MsPerSecond, millis |-> 0 ]

\* Date.prototype.toJSON: "....-..-..T..:..:ss.mmmZ"
toISOString(date) == [ seconds |-> date \div MsPerSecond, millis |-> date % MsPerSecond ]

\* new Date(isoString)
newDate(iso) == iso.seconds * MsPerSecond + iso.millis

\* JSON.stringify of a message and of a session built in memory
stringifyMessage(msg) == [ msg EXCEPT !.timestamp = toISOString(msg.timestamp) ]

stringifySession(session) ==
  [ session EXCEPT !.createdAt = toISOString(session.createdAt),
                   !.messages  = [ i \in 1..Len(session.messages) |-> stringifyMessage(session.messages[i]) ] ]

\* the value of the localStorage key: null while the key is absent,
\* otherwise a JSON text, given by the index it spells out
null == [ kind |-> "null", value |-> <<>> ]

JsonText(index) == [ kind |-> "json", value |-> index ]

\* allChats[videoId], undefined read as no entry
HasKey(index, videoId) == \E i \in DOMAIN index : index[i].videoId = videoId

GetKey(index, videoId) ==
  index[CHOOSE i \in DOMAIN index : index[i].videoId = videoId].sessions

\* allChats[videoId] = sessions: an existing key keeps its place, a new key
\* comes last
SetKey(index, videoId, sessions) ==
  IF HasKey(index, videoId)
    THEN [ i \in 1..Len(index) |->
             IF index[i].videoId = videoId
               THEN [ videoId |-> videoId, sessions |-> sessions ]
               ELSE index[i] ]
    ELSE Append(index, [ videoId |-> videoId, sessions |-> sessions ])

\* delete allChats[videoId]
DeleteKey(index, videoId) == SelectSeq(index, LAMBDA entry : entry.videoId # videoId)

\* VideoChatStorage.getAllVideoChats
getAllVideoChats(stored) == IF stored.kind = "json" THEN stored.value ELSE <<>>

\* the session => ({...}) of getVideoChats: the date strings become Dates
reviveMessage(msg) == [ msg EXCEPT !.timestamp = newDate(msg.timestamp) ]

reviveSession(session) ==
  [ session EXCEPT !.createdAt = newDate(session.createdAt),
                   !.messages  = [ i \in 1..Len(session.messages) |-> reviveMessage(session.messages[i]) ] ]

\* VideoChatStorage.getVideoChats
getVideoChats(stored, videoId) ==
  LET allChats   == getAllVideoChats(stored)
      videoChats == IF HasKey(allChats, videoId) THEN GetKey(allChats, videoId) ELSE <<>>
  IN  [ i \in 1..Len(videoChats) |-> reviveSession(videoChats[i]) ]

\* a save that keeps the stored sessions of the video in front of the new ones
saveVideoChatsMerging(stored, videoId, sessions) ==
  LET allChats == getAllVideoChats(stored)
      kept     == IF HasKey(allChats, videoId) THEN GetKey(allChats, videoId) ELSE <<>>
  IN  JsonText(SetKey(allChats, videoId,
                       kept \o [ i \in 1..Len(sessions) |-> stringifySession(sessions[i]) ]))

\* VideoChatStorage.saveVideoChats: the new value of the key
saveVideoChats(stored, videoId, sessions) ==
  JsonText(SetKey(getAllVideoChats(stored), videoId,
                   [ i \in 1..Len(sessions) |-> stringifySession(sessions[i]) ]))

\* deleteVideoChat that leaves the emptied list under its key
deleteVideoChatKeepKey(stored, videoId, sessionId) ==
  LET allChats == getAllVideoChats(stored)
  IN  IF HasKey(allChats, videoId)
        THEN JsonText(SetKey(allChats, videoId,
               SelectSeq(GetKey(allChats, videoId), LAMBDA session : session.id # sessionId)))
        ELSE stored

\* VideoChatStorage.deleteVideoChat: the new value of the key
deleteVideoChat(stored, videoId, sessionId) ==
  LET allChats == getAllVideoChats(stored)
      kept     == SelectSeq(GetKey(allChats, videoId), LAMBDA session : session.id # sessionId)
  IN  IF HasKey(allChats, videoId)
        THEN IF Len(kept) = 0
               THEN JsonText(DeleteKey(allChats, videoId))
               ELSE JsonText(SetKey(allChats, videoId, kept))
        ELSE stored

\* a clear that writes an empty index back
clearVideoChatsDroppingAll(stored, videoId) == JsonText(<<>>)

\* VideoChatStorage.clearVideoChats: the new value of the key
clearVideoChats(stored, videoId) == JsonText(DeleteKey(getAllVideoChats(stored), videoId))

\* VideoChatStorage.clearVideoChats of the landing page
clearVideoChatsLanding(stored, videoId) == JsonText(DeleteKey(getAllVideoChats(stored), videoId))

\* VideoChatStorage.clearAllChats: the key is removed
clearAllChats == null

\* sessions.reduce(..., new Date(0)): the latest createdAt, at least Date(0)
RECURSIVE latestCreatedAt(_)
latestCreatedAt(sessions) ==
  IF Len(sessions) = 0 THEN 0
  ELSE LET latest      == latestCreatedAt(SubSeq(sessions, 1, Len(sessions) - 1))
           sessionDate == newDate(sessions[Len(sessions)].createdAt)
       IN  IF sessionDate > latest THEN sessionDate ELSE latest

\* the sort with the comparison turned around: oldest activity first
RECURSIVE InsertByLastActivityAscending(_, _)
InsertByLastActivityAscending(sorted, item) ==
  IF Len(sorted) = 0 THEN << item >>
  ELSE IF Head(sorted).lastActivity <= item.lastActivity
         THEN << Head(sorted) >> \o InsertByLastActivityAscending(Tail(sorted), item)
         ELSE << item >> \o sorted

\* sort((a, b) => b.lastActivity.getTime() - a.lastActivity.getTime()):
\* descending and stable
RECURSIVE InsertByLastActivity(_, _)
InsertByLastActivity(sorted, item) ==
  IF Len(sorted) = 0 THEN << item >>
  ELSE IF Head(sorted).lastActivity >= item.lastActivity
         THEN << Head(sorted) >> \o InsertByLastActivity(Tail(sorted), item)
         ELSE << item >> \o sorted

RECURSIVE sortByLastActivity(_)
sortByLastActivity(items) ==
  IF Len(items) = 0 THEN <<>>
  ELSE InsertByLastActivity(sortByLastActivity(SubSeq(items, 1, Len(items) - 1)),
                            items[Len(items)])

\* sessions[0]?.videoTitle || 'Unknown Video'
firstVideoTitle(sessions) ==
  IF Len(sessions) > 0 /\ sessions[1].videoTitle # <<>> THEN sessions[1].videoTitle
  ELSE Lit("Unknown Video")

\* VideoChatStorage.getAllVideosWithChats of the chat view
getAllVideosWithChats(stored) ==
  LET allChats == getAllVideoChats(stored)
  IN  sortByLastActivity(
        [ k \in 1..Len(allChats) |->
            [ videoId      |-> allChats[k].videoId,
              videoTitle   |-> firstVideoTitle(allChats[k].sessions),
              chatCount    |-> Len(allChats[k].sessions),
              lastActivity |-> latestCreatedAt(allChats[k].sessions) ] ])

\* total + (session.messages.length - 1), summed over the sessions
RECURSIVE totalMessages(_)
totalMessages(sessions) ==
  IF Len(sessions) = 0 THEN 0
  ELSE totalMessages(Tail(sessions)) + (Len(Head(sessions).messages) - 1)

\* a landing-page getAllVideosWithChats that leaves the videos in the order
\* of the keys
getAllVideosWithChatsLandingUnsorted(stored) ==
  LET allChats == getAllVideoChats(stored)
  IN  [ k \in 1..Len(allChats) |->
          [ videoId       |-> allChats[k].videoId,
            videoTitle    |-> firstVideoTitle(allChats[k].sessions),
            chatCount     |-> Len(allChats[k].sessions),
            lastActivity  |-> latestCreatedAt(allChats[k].sessions),
            totalMessages |-> totalMessages(allChats[k].sessions),
            sessions      |-> allChats[k].sessions ] ]

\* VideoChatStorage.getAllVideosWithChats of the landing page
getAllVideosWithChatsLanding(stored) ==
  LET allChats == getAllVideoChats(stored)
  IN  sortByLastActivity(
        [ k \in 1..Len(allChats) |->
            [ videoId       |-> allChats[k].videoId,
              videoTitle    |-> firstVideoTitle(allChats[k].sessions),
              chatCount     |-> Len(allChats[k].sessions),
              lastActivity  |-> latestCreatedAt(allChats[k].sessions),
              totalMessages |-> totalMessages(allChats[k].sessions),
              sessions      |-> [ i \in 1..Len(allChats[k].sessions) |->
                                    [ allChats[k].sessions[i] EXCEPT
                                        !.createdAt = newDate(allChats[k].sessions[i].createdAt) ] ] ] ])

(***************************************************************************)
(* The videos a user opens: what getVideoInfo and transcribeVideo answer   *)
(* for each of them.                                                       *)
(***************************************************************************)
VideoIds == { "jNQXAC9IVRw", "kJQP7kiw5Fk" }

\* videoInfo.title and the texts of the transcript segments
videoInfoTitle(videoId) ==
  IF videoId = "jNQXAC9IVRw" THEN <<"M","e"," ","a","t"," ","t","h","e"," ","z","o","o">> ELSE <<"D","e","s","p","a","c","i","t","o">>

transcriptTexts(videoId) ==
  IF videoId = "jNQXAC9IVRw" THEN << SegmentTexts[3] >> ELSE << SegmentTexts[1], SegmentTexts[2] >>

\* what the user types into the message box
ChatInputs == { <<" "," ">>, <<"r","e","a","c","t"," ","s","t","a","t","e">> }

(***************************************************************************)
(* ChatInterface: sessions and messages.  An id, a title and a content are *)
(* texts: the literal pieces of a template as they are, what is            *)
(* interpolated character by character.                                    *)
(***************************************************************************)
\* a ChatMessage; relevantTimestamp reads undefined where it was never set
ChatMessage(id, type, content, timestamp, relevantTimestamp) ==
  [ id |-> id, type |-> type, content |-> content, timestamp |-> timestamp,
    relevantTimestamp |-> relevantTimestamp ]

\* the three greetings: of the first session of a video, of a new or cleared
\* chat, and of the session that 'clear all' creates
initialGreeting(title) ==
  Lit("Hello! I've analyzed \"") \o title
    \o Lit("\" and I'm ready to provide detailed, comprehensive answers to your questions. I can discuss the video content in depth [...] What would you like to explore in detail?")

newChatGreeting(title) ==
  Lit("Hello! I'm ready to provide detailed, comprehensive answers about \"") \o title
    \o Lit("\" or any other topics you'd like to explore in depth. What would you like to discuss?")

clearAllGreeting(title) ==
  Lit("Hello! I've analyzed \"") \o title
    \o Lit("\" and I'm ready to provide detailed, comprehensive answers to your questions. What would you like to explore in detail?")

apologyContent ==
  Lit("I apologize, but I encountered an error while processing your question. [...] Please try asking again or rephrase your question.")

\* the message every session is created with, and a cleared one is left with
greetingMessage(content, now) == ChatMessage(Lit("1"), "assistant", content, now, undefined)

\* the session of the init effect and of handleClearAllVideoChats
defaultSession(video, greeting, now) ==
  [ id |-> Lit("default"), title |-> Lit("Main Chat"),
    messages |-> << greetingMessage(greeting, now) >>,
    createdAt |-> now, videoId |-> video.id, videoTitle |-> video.title ]

\* the session of handleNewChat: id `chat-${Date.now()}`, title `Chat ${n + 1}`
newSession(video, sessionCount, now) ==
  [ id |-> Lit("chat-") \o DecimalString(now),
    title |-> Lit("Chat ") \o DecimalString(sessionCount + 1),
    messages |-> << greetingMessage(newChatGreeting(video.title), now) >>,
    createdAt |-> now, videoId |-> video.id, videoTitle |-> video.title ]

\* chatSessions.find(session => session.id === currentSessionId) || chatSessions[0],
\* then currentSession?.messages || []
messagesOf(sessions, sessionId) ==
  IF \E i \in DOMAIN sessions : sessions[i].id = sessionId
    THEN LET first == CHOOSE i \in DOMAIN sessions :
                        /\ sessions[i].id = sessionId
                        /\ \A j \in 1..(i - 1) : sessions[j].id # sessionId
         IN  sessions[first].messages
  ELSE IF Len(sessions) > 0 THEN sessions[1].messages
  ELSE <<>>

\* updateCurrentSession: every session with that id gets the messages
updateCurrentSession(sessions, sessionId, updatedMessages) ==
  [ i \in 1..Len(sessions) |->
      IF sessions[i].id = sessionId
        THEN [ sessions[i] EXCEPT !.messages = updatedMessages ]
        ELSE sessions[i] ]

\* a guard that lets a send through while a reply is awaited
sendIgnoredWhenBlank(inputMessage, typing) == trim(inputMessage) = <<>>

\* handleSendMessage: if (!inputMessage.trim() || isTyping) return
sendIgnored(inputMessage, typing) == trim(inputMessage) = <<>> \/ typing

\* a render without a save effect
saveEffectMissing(stored, videoId, sessions) == stored

\* a save effect that saves whatever the list holds
saveEffectUnguarded(stored, videoId, sessions) == saveVideoChats(stored, videoId, sessions)

\* the save effect, run after a render with a new chatSessions
saveEffect(stored, videoId, sessions) ==
  IF Len(sessions) > 0 THEN saveVideoChats(stored, videoId, sessions) ELSE stored

\* a URL is the text in front of the video id and the id; the texts the
\* patterns of extractVideoId accept in front of an id
VideoUrlPrefixes == { "https://www.youtube.com/watch?v=", "https://youtu.be/" }

\* `https://www.youtube.com/watch?v=${videoId}`
watchUrl(videoId) == << "https://www.youtube.com/watch?v=", videoId >>

\* the URLs a user submits: the two videos, and a page that is no video
SubmitUrls == { watchUrl(videoId) : videoId \in VideoIds } \cup { << "https://example.com/", "clip" >> }

\* YouTubeService.extractVideoId; null is written as the empty id, which
\* getVideoInfo's !videoId treats alike
extractVideoId(url) ==
  IF url[1] \in VideoUrlPrefixes /\ url[2] # "" THEN url[2] ELSE ""

invalidUrlMessage == Lit("Invalid YouTube URL. Please provide a valid YouTube video link.")

failedToAnalyzeMessage == Lit("Failed to analyze video: [...]")

\* a getVideoInfo that asks the metadata provider whatever the URL holds
getVideoInfoUnchecked(url) ==
  [ thrown |-> FALSE, message |-> <<>>, videoId |-> extractVideoId(url), metadataCalled |-> TRUE ]

\* YouTubeService.getVideoInfo up to its first await: it throws before the
\* metadata provider is called when the URL holds no id
getVideoInfo(url) ==
  LET videoId == extractVideoId(url)
  IN  IF videoId = ""
        THEN [ thrown |-> TRUE, message |-> invalidUrlMessage, videoId |-> "", metadataCalled |-> FALSE ]
        ELSE [ thrown |-> FALSE, message |-> <<>>, videoId |-> videoId, metadataCalled |-> TRUE ]

\* a setTranscript that leaves a title it already has
setTranscriptKeepingTitle(newTranscript, newSegments, title, url) ==
  [ transcript |-> newTranscript,
    segments   |-> newSegments,
    videoTitle |-> IF videoTitle # <<>> THEN videoTitle
                   ELSE IF title = undefined THEN <<>> ELSE title,
    videoUrl   |-> IF url = undefined THEN <<>> ELSE url ]

\* a setTranscript that keeps the context of the video it was given first
setTranscriptFirstOnly(newTranscript, newSegments, title, url) ==
  IF transcript # <<>>
    THEN [ transcript |-> transcript, segments |-> segments,
           videoTitle |-> videoTitle, videoUrl |-> videoUrl ]
    ELSE [ transcript |-> newTranscript,
           segments   |-> newSegments,
           videoTitle |-> IF title = undefined THEN <<>> ELSE title,
           videoUrl   |-> IF url = undefined THEN <<>> ELSE url ]

\* AIService.setTranscript: the four fields after the call; title || ''
\* and url || ''
setTranscript(newTranscript, newSegments, title, url) ==
  [ transcript |-> newTranscript,
    segments   |-> newSegments,
    videoTitle |-> IF title = undefined THEN <<>> ELSE title,
    videoUrl   |-> IF url = undefined THEN <<>> ELSE url ]

\* the delay before the reply is asked for, in milliseconds
SendDelay == 500

\* the least time transcribeVideo takes, in milliseconds
TranscriptionDelay == 3000

\* the time the processor shows an error before the landing page returns
ErrorReturnDelay == 3000

(***************************************************************************)
(* The state before anything is opened.                                    *)
(***************************************************************************)
NoCall == [ pc |-> "idle" ]

NoProbe == [ op |-> "none" ]

\* videoData = null
NoVideo == [ id |-> "", title |-> <<>> ]

\* no handleSendMessage is waiting for its reply
NoSend == <<>>

NoSubmit == [ active |-> FALSE ]

\* processingError = null
NoProcessingError == <<>>

\* the browser tabs of the two-tab model, and a tab with no chat view
Tabs == { "A", "B" }

NoTab == [ pc |-> "closed", videoData |-> NoVideo, chatSessions |-> <<>>,
           currentSessionId |-> <<>>, stored |-> <<>> ]

viewVars ==
  << clock, currentView, videoData, submit, processingError,
     chatSessions, currentSessionId, isTyping, pending, lastError >>

appVars == << localStorage, viewVars >>

\* useState('') / useState([]) / useState(false) of a ChatInterface
ChatUnmounted ==
  /\ chatSessions = <<>>
  /\ currentSessionId = <<>>
  /\ isTyping = FALSE
  /\ pending = NoSend
  /\ lastError = "none"

\* App's useState('landing') / useState(null), and an empty localStorage
InitApp ==
  /\ localStorage = null
  /\ clock = 0
  /\ currentView = "landing"
  /\ videoData = NoVideo
  /\ submit = NoSubmit
  /\ processingError = NoProcessingError
  /\ ChatUnmounted
  /\ tabs = [ t \in Tabs |-> NoTab ]
  /\ flows = <<>>
  /\ steps = <<>>
  /\ isLoading = FALSE

\* the fields of a new AIService
InitAIService ==
  /\ transcript = <<>>
  /\ segments = <<>>
  /\ videoTitle = <<>>
  /\ videoUrl = <<>>
  /\ geminiConfigured = FALSE
  /\ aiCall = NoCall

(***************************************************************************)
(* VideoChatStorage over a key that can hold any text, on a storage that   *)
(* can fail.  The key is absent (null), or holds a text that is no JSON,   *)
(* the JSON text null, a JSON number, or the JSON text of an index.  A     *)
(* call has an outcome: it returns a value or throws, and leaves the key   *)
(* with a value.  The value JSON.parse returns is written as the text that *)
(* spells it.                                                              *)
(***************************************************************************)
NotJsonText == [ kind |-> "text", value |-> <<>> ]

JsonNullText == [ kind |-> "jsonNull", value |-> <<>> ]

JsonNumberText == [ kind |-> "jsonNumber", value |-> <<>> ]

\* the storage works, is full (setItem throws QuotaExceededError), or is
\* denied to the page (every access throws SecurityError)
StorageFailures == { "none", "quota", "denied" }

getItemThrows(failure) == failure = "denied"

setItemThrows(failure) == failure \in { "quota", "denied" }

removeItemThrows(failure) == failure = "denied"

Outcome(thrown, value, stored) == [ thrown |-> thrown, value |-> value, stored |-> stored ]

\* getAllVideoChats with its try and catch: {} when getItem or JSON.parse
\* throws and when the key is absent, otherwise whatever JSON.parse returns
getAllVideoChatsCall(stored, failure) ==
  IF getItemThrows(failure) \/ stored.kind \in { "null", "text" }
    THEN JsonText(<<>>)
    ELSE stored

\* allChats[videoId], Object.entries(allChats) and delete allChats[videoId]
\* throw a TypeError when allChats is null
isNull(allChats) == allChats.kind = "jsonNull"

\* allChats[videoId] = sessions throws a TypeError when allChats is null, and
\* in a module, which is strict code, when it is a number
assignmentThrows(allChats) == allChats.kind \in { "jsonNull", "jsonNumber" }

\* getVideoChats: nothing of it is inside a try
getVideoChatsCall(stored, videoId, failure) ==
  LET allChats == getAllVideoChatsCall(stored, failure)
  IN  IF isNull(allChats)
        THEN Outcome(TRUE, <<>>, stored)
        ELSE Outcome(FALSE, getVideoChats(allChats, videoId), stored)

\* saveVideoChats: all of it is inside a try
saveVideoChatsCall(stored, videoId, sessions, failure) ==
  LET allChats == getAllVideoChatsCall(stored, failure)
  IN  IF assignmentThrows(allChats) \/ setItemThrows(failure)
        THEN Outcome(FALSE, <<>>, stored)
        ELSE Outcome(FALSE, <<>>, saveVideoChats(allChats, videoId, sessions))

\* deleteVideoChat: nothing of it is inside a try
deleteVideoChatCall(stored, videoId, sessionId, failure) ==
  LET allChats == getAllVideoChatsCall(stored, failure)
  IN  IF isNull(allChats) THEN Outcome(TRUE, <<>>, stored)
      ELSE IF ~HasKey(getAllVideoChats(allChats), videoId) THEN Outcome(FALSE, <<>>, stored)
      ELSE IF setItemThrows(failure) THEN Outcome(TRUE, <<>>, stored)
      ELSE Outcome(FALSE, <<>>, deleteVideoChat(allChats, videoId, sessionId))

\* clearVideoChats, of the chat view and of the landing page: nothing of it
\* is inside a try; JSON.stringify of a number is the number's text again
clearVideoChatsCall(stored, videoId, failure) ==
  LET allChats == getAllVideoChatsCall(stored, failure)
  IN  IF isNull(allChats) \/ setItemThrows(failure) THEN Outcome(TRUE, <<>>, stored)
      ELSE IF allChats.kind = "jsonNumber" THEN Outcome(FALSE, <<>>, allChats)
      ELSE Outcome(FALSE, <<>>, clearVideoChats(allChats, videoId))

\* clearAllChats: localStorage.removeItem, not inside a try
clearAllChatsCall(stored, failure) ==
  IF removeItemThrows(failure) THEN Outcome(TRUE, <<>>, stored)
  ELSE Outcome(FALSE, <<>>, clearAllChats)

\* getAllVideosWithChats of the chat view: nothing of it is inside a try;
\* Object.entries of a number is empty
getAllVideosWithChatsCall(stored, failure) ==
  LET allChats == getAllVideoChatsCall(stored, failure)
  IN  IF isNull(allChats)
        THEN Outcome(TRUE, <<>>, stored)
        ELSE Outcome(FALSE, getAllVideosWithChats(allChats), stored)

\* getAllVideosWithChats of the landing page
getAllVideosWithChatsLandingCall(stored, failure) ==
  LET allChats == getAllVideoChatsCall(stored, failure)
  IN  IF isNull(allChats)
        THEN Outcome(TRUE, <<>>, stored)
        ELSE Outcome(FALSE, getAllVideosWithChatsLanding(allChats), stored)

(***************************************************************************)
(* The segment matcher on its own: a transcript is drawn, then             *)
(* extractKeywords and findRelevantSegments are called on a question.      *)
(***************************************************************************)
InitMatcher ==
  /\ \E texts \in SeqsUpTo(Range(SegmentTexts), MaxSegs) :
       /\ segments = MakeSegments(texts)
       /\ transcript = FullText(MakeSegments(texts))
  /\ videoTitle = <<>>
  /\ videoUrl = <<>>
  /\ geminiConfigured = FALSE
  /\ aiCall = NoCall
  /\ probe = NoProbe
  /\ InitApp

CallExtractKeywords ==
  \E q \in Range(Questions) :
    /\ probe = NoProbe
    /\ probe' = [ op |-> "extractKeywords", question |-> q, result |-> extractKeywords(q) ]
    /\ UNCHANGED << tabs, submitVars, aiVars, appVars >>

CallFindRelevantSegments ==
  \E q \in Range(Questions) :
    /\ probe = NoProbe
    /\ probe' = [ op |-> "findRelevantSegments", question |-> q,
                  result |-> findRelevantSegments(q, segments) ]
    /\ UNCHANGED << tabs, submitVars, aiVars, appVars >>

NextMatcher == CallExtractKeywords \/ CallFindRelevantSegments

SpecMatcher == InitMatcher /\ [][NextMatcher]_vars

(***************************************************************************)
(* generateResponse (mode "brief") and generateDetailedResponse (mode      *)
(* "detailed") as the steps of one call: the remote attempt when the       *)
(* provider is configured, then the local fallback.                        *)
(***************************************************************************)
Modes == { "brief", "detailed" }

InitAI ==
  /\ \E texts \in SeqsUpTo(Range(SegmentTexts), MaxCtxSegs) :
       /\ segments = MakeSegments(texts)
       /\ transcript = FullText(MakeSegments(texts))
  /\ videoTitle \in Range(Titles)
  /\ videoUrl = <<>>
  /\ geminiConfigured \in BOOLEAN
  /\ aiCall = NoCall
  /\ probe = NoProbe
  /\ InitApp

\* the caller invokes generateResponse(question) or
\* generateDetailedResponse(question): up to the first await
StartGenerate ==
  \E mode \in Modes, q \in Range(Questions) :
    /\ aiCall.pc = "idle"
    /\ aiCall' = [ pc             |-> IF geminiConfigured THEN "remote" ELSE "local",
                   mode           |-> mode,
                   question       |-> q,
                   configured     |-> geminiConfigured,
                   remoteAttempts |-> IF geminiConfigured THEN 1 ELSE 0,
                   remoteFailed   |-> FALSE,
                   response       |-> remoteResponse(undefined) ]
    /\ UNCHANGED << tabs, submitVars, transcript, segments, videoTitle, videoUrl, geminiConfigured, probe, appVars >>

\* the awaited remote call resolves
RemoteResolves ==
  \E content \in RemoteContents :
    /\ aiCall.pc = "remote"
    /\ aiCall' = [ aiCall EXCEPT
                     !.pc = "resolved",
                     !.response = IF aiCall.mode = "brief"
                                    THEN makeBrief(remoteResponse(content))
                                    ELSE remoteResponse(content) ]
    /\ UNCHANGED << tabs, submitVars, transcript, segments, videoTitle, videoUrl, geminiConfigured, probe, appVars >>

\* the remote call rejects and nothing catches it: the rejection reaches the
\* caller
RemoteRejectsUncaught ==
  /\ aiCall.pc = "remote"
  /\ aiCall' = [ aiCall EXCEPT !.pc = "rejected", !.remoteFailed = TRUE ]
  /\ UNCHANGED << tabs, submitVars, transcript, segments, videoTitle, videoUrl, geminiConfigured, probe, appVars >>

\* the awaited remote call rejects: the catch block logs, and the call goes
\* on to the fallback
RemoteRejects ==
  /\ aiCall.pc = "remote"
  /\ aiCall' = [ aiCall EXCEPT !.pc = "local", !.remoteFailed = TRUE ]
  /\ UNCHANGED << tabs, submitVars, transcript, segments, videoTitle, videoUrl, geminiConfigured, probe, appVars >>

\* the fallback's delay ends and it builds the response
LocalFallback ==
  \E r1 \in RandomUnit, r2 \in RandomUnit :
    LET result == localResponse(aiCall.mode, aiCall.question, r1, r2)
    IN  /\ aiCall.pc = "local"
        /\ aiCall' = IF result.thrown
                       THEN [ aiCall EXCEPT !.pc = "rejected" ]
                       ELSE [ aiCall EXCEPT !.pc = "resolved", !.response = result.value ]
        /\ UNCHANGED << tabs, submitVars, transcript, segments, videoTitle, videoUrl, geminiConfigured, probe, appVars >>

NextAI == StartGenerate \/ RemoteResolves \/ RemoteRejects \/ LocalFallback

SpecAI == InitAI /\ [][NextAI]_vars

(***************************************************************************)
(* VideoChatStorage on its own: callers save, delete and clear session     *)
(* lists in any order; probe keeps the last call and the value of the key  *)
(* before it.                                                              *)
(***************************************************************************)
\* the sessions callers hand to the store for a video
StoreSessions(videoId) ==
  LET video  == [ id |-> videoId, title |-> videoInfoTitle(videoId) ]
      first  == defaultSession(video, initialGreeting(video.title), 1500)
      second == newSession(video, 1, 1999)
      asked  == [ second EXCEPT !.messages =
                    Append(@, ChatMessage(DecimalString(2001), "user", <<"r","e","a","c","t"," ","s","t","a","t","e">>, 2001, undefined)) ]
  IN  { first, asked }

InitStore ==
  /\ InitAIService
  /\ InitApp
  /\ probe = NoProbe

StoreSave ==
  \E videoId \in VideoIds :
    \E sessions \in SeqsUpTo(StoreSessions(videoId), MaxStoredSessions) :
      /\ localStorage' = saveVideoChats(localStorage, videoId, sessions)
      /\ probe' = [ op |-> "saveVideoChats", videoId |-> videoId, sessions |-> sessions,
                    before |-> localStorage ]
      /\ UNCHANGED << tabs, submitVars, aiVars, viewVars >>

StoreDelete ==
  \E videoId \in VideoIds :
    \E session \in StoreSessions(videoId) :
      /\ localStorage' = deleteVideoChat(localStorage, videoId, session.id)
      /\ probe' = [ op |-> "deleteVideoChat", videoId |-> videoId, sessionId |-> session.id,
                    before |-> localStorage ]
      /\ UNCHANGED << tabs, submitVars, aiVars, viewVars >>

StoreClear ==
  \E videoId \in VideoIds :
    /\ localStorage' = clearVideoChats(localStorage, videoId)
    /\ probe' = [ op |-> "clearVideoChats", videoId |-> videoId, before |-> localStorage ]
    /\ UNCHANGED << tabs, submitVars, aiVars, viewVars >>

StoreClearAll ==
  /\ localStorage' = clearAllChats
  /\ probe' = [ op |-> "clearAllChats", before |-> localStorage ]
  /\ UNCHANGED << tabs, submitVars, aiVars, viewVars >>

NextStore == StoreSave \/ StoreDelete \/ StoreClear \/ StoreClearAll

SpecStore == InitStore /\ [][NextStore]_vars

(***************************************************************************)
(* The application: App switches between the landing page, the processor   *)
(* and the chat view; a handler of ChatInterface, the render after it and   *)
(* the effects of that render are one step.  handleSendMessage is two       *)
(* steps, before and after its awaits; the second works with the            *)
(* currentSessionId and the messages the first closed over.                 *)
(***************************************************************************)
Init ==
  /\ InitAIService
  /\ InitApp
  /\ probe = NoProbe

\* the clock moves on, while a chat is open, by the delay of a send
Tick ==
  /\ currentView = "chat"
  /\ (clock % TranscriptionDelay) \div SendDelay < MaxTicks
  /\ clock + SendDelay < MaxClock
  /\ clock' = clock + SendDelay
  /\ UNCHANGED << tabs, submitVars, aiVars, probe, localStorage, currentView, videoData, submit, processingError,
                  chatSessions, currentSessionId, isTyping, pending, lastError >>

\* LandingPage.handleSubmit / handleVideoSelect, up to the first await of
\* App.handleVideoSubmit, which is inside getVideoInfo
SubmitVideo ==
  \E url \in SubmitUrls :
    /\ currentView = "landing"
    /\ clock + TranscriptionDelay < MaxClock
    /\ currentView' = "processor"
    /\ processingError' = NoProcessingError
    /\ submit' = [ active |-> TRUE, url |-> url, failed |-> FALSE,
                   videoId |-> getVideoInfo(url).videoId,
                   thrown |-> getVideoInfo(url).thrown,
                   metadataCalled |-> getVideoInfo(url).metadataCalled,
                   transcriptionCalled |-> FALSE ]
    /\ UNCHANGED << tabs, submitVars, aiVars, probe, localStorage, clock, videoData,
                    chatSessions, currentSessionId, isTyping, pending, lastError >>

\* the metadata provider answers: getVideoInfo resolves and handleVideoSubmit
\* calls transcribeVideo
MetadataResolves ==
  /\ currentView = "processor"
  /\ submit.active
  /\ ~submit.thrown
  /\ ~submit.transcriptionCalled
  /\ submit' = [ submit EXCEPT !.transcriptionCalled = TRUE ]
  /\ UNCHANGED << tabs, submitVars, aiVars, probe, localStorage, clock, currentView, videoData, processingError,
                  chatSessions, currentSessionId, isTyping, pending, lastError >>

\* App.handleVideoSubmit after its awaits: setTranscript, setVideoData,
\* setCurrentView('chat'); then ChatInterface mounts, its init effect loads
\* or creates the sessions, and the save effect of the next render saves them
ProcessingDone ==
  LET video    == [ id |-> submit.videoId, title |-> videoInfoTitle(submit.videoId) ]
      now      == clock + TranscriptionDelay
      context  == setTranscript(FullText(MakeSegments(transcriptTexts(video.id))),
                                MakeSegments(transcriptTexts(video.id)), video.title, submit.url)
      existingSessions == getVideoChats(localStorage, video.id)
      sessions == IF Len(existingSessions) > 0
                    THEN existingSessions
                    ELSE << defaultSession(video, initialGreeting(video.title), now) >>
  IN  /\ currentView = "processor"
      /\ submit.active
      /\ submit.transcriptionCalled
      /\ clock' = now
      /\ segments' = context.segments
      /\ transcript' = context.transcript
      /\ videoTitle' = context.videoTitle
      /\ videoUrl' = context.videoUrl
      /\ videoData' = video
      /\ currentView' = "chat"
      /\ submit' = NoSubmit
      /\ chatSessions' = sessions
      /\ currentSessionId' = sessions[1].id
      /\ localStorage' = saveEffect(localStorage, video.id, sessions)
      /\ UNCHANGED << tabs, submitVars, geminiConfigured, aiCall, probe, processingError, isTyping, pending, lastError >>

\* the catch of App.handleVideoSubmit: getVideoInfo threw on the URL, or the
\* metadata provider failed (transcribeVideo has no way to reject); the
\* error is shown and the return is scheduled
SubmitFails ==
  /\ currentView = "processor"
  /\ submit.active
  /\ ~submit.failed
  /\ ~submit.transcriptionCalled
  /\ processingError' = IF submit.thrown THEN invalidUrlMessage ELSE failedToAnalyzeMessage
  /\ submit' = [ submit EXCEPT !.failed = TRUE, !.thrown = TRUE ]
  /\ UNCHANGED << tabs, submitVars, aiVars, probe, localStorage, clock, currentView, videoData,
                  chatSessions, currentSessionId, isTyping, pending, lastError >>

\* the timer of the catch fires: setCurrentView('landing'),
\* setProcessingError(null)
ErrorTimerFires ==
  /\ submit.active
  /\ submit.failed
  /\ clock' = clock + ErrorReturnDelay
  /\ currentView' = "landing"
  /\ processingError' = NoProcessingError
  /\ submit' = NoSubmit
  /\ UNCHANGED << tabs, submitVars, aiVars, probe, localStorage, videoData,
                  chatSessions, currentSessionId, isTyping, pending, lastError >>

\* App.handleBackToLanding: the ChatInterface is unmounted, and what a send
\* still in progress sets afterwards reaches no component
Back ==
  /\ currentView = "chat"
  /\ currentView' = "landing"
  /\ videoData' = NoVideo
  /\ chatSessions' = <<>>
  /\ currentSessionId' = <<>>
  /\ isTyping' = FALSE
  /\ pending' = NoSend
  /\ lastError' = "none"
  /\ processingError' = NoProcessingError
  /\ UNCHANGED << tabs, submitVars, aiVars, probe, localStorage, clock, submit >>

\* LandingPage.handleDeleteVideoHistory
DeleteVideoHistory ==
  \E k \in DOMAIN getAllVideosWithChatsLanding(localStorage) :
    /\ currentView = "landing"
    /\ localStorage' = clearVideoChatsLanding(localStorage,
                         getAllVideosWithChatsLanding(localStorage)[k].videoId)
    /\ UNCHANGED << tabs, submitVars, aiVars, probe, viewVars >>

\* LandingPage.handleClearAllHistory, confirmed
ClearAllHistory ==
  /\ currentView = "landing"
  /\ localStorage # null
  /\ localStorage' = clearAllChats
  /\ UNCHANGED << tabs, submitVars, aiVars, probe, viewVars >>

\* handleSendMessage up to its first await
SendStart ==
  \E inputMessage \in ChatInputs :
    LET messages        == messagesOf(chatSessions, currentSessionId)
        userMessage     == ChatMessage(DecimalString(clock), "user", inputMessage, clock, undefined)
        updatedMessages == Append(messages, userMessage)
    IN  /\ currentView = "chat"
        /\ ~sendIgnored(inputMessage, isTyping)
        /\ Len(updatedMessages) < MaxMessages
        /\ chatSessions' = updateCurrentSession(chatSessions, currentSessionId, updatedMessages)
        /\ isTyping' = TRUE
        /\ pending' = Append(pending, [ sessionId |-> currentSessionId,
                                         updatedMessages |-> updatedMessages,
                                         content |-> inputMessage, sentAt |-> clock ])
        /\ localStorage' = saveEffect(localStorage, videoData.id, chatSessions')
        /\ lastError' = "none"
        /\ UNCHANGED << tabs, submitVars, aiVars, probe, clock, currentView, videoData, submit, processingError, currentSessionId >>

\* handleSendMessage after its awaits, for one of the sends in progress: the
\* reply, or the apology when the generation threw, is appended to the
\* messages that send closed over
SendFinish ==
  \E k \in DOMAIN pending, r1 \in RandomUnit, r2 \in RandomUnit :
    LET aiResponse == generateDetailedFallbackResponse(pending[k].content, r1, r2)
        assistantMessage ==
          IF aiResponse.thrown
            THEN ChatMessage(DecimalString(clock + 1), "assistant", apologyContent, clock, undefined)
            ELSE ChatMessage(DecimalString(clock + 1), "assistant", aiResponse.value.content,
                             clock, aiResponse.value.timestamp)
        finalMessages == Append(pending[k].updatedMessages, assistantMessage)
    IN  /\ currentView = "chat"
        /\ clock >= pending[k].sentAt + SendDelay
        /\ chatSessions' = updateCurrentSession(chatSessions, pending[k].sessionId, finalMessages)
        /\ isTyping' = FALSE
        /\ pending' = [ n \in 1..(Len(pending) - 1) |-> IF n < k THEN pending[n] ELSE pending[n + 1] ]
        /\ localStorage' = saveEffect(localStorage, videoData.id, chatSessions')
        /\ UNCHANGED << tabs, submitVars, aiVars, probe, clock, currentView, videoData, submit, processingError,
                        currentSessionId, lastError >>

\* handleNewChat
NewChat ==
  /\ currentView = "chat"
  /\ Len(chatSessions) < MaxSessions
  /\ chatSessions' = Append(chatSessions, newSession(videoData, Len(chatSessions), clock))
  /\ currentSessionId' = newSession(videoData, Len(chatSessions), clock).id
  /\ localStorage' = saveEffect(localStorage, videoData.id, chatSessions')
  /\ lastError' = "none"
  /\ UNCHANGED << tabs, submitVars, aiVars, probe, clock, currentView, videoData, submit, processingError, isTyping, pending >>

\* handleSwitchChat, on an entry of the chat history
SwitchChat ==
  \E i \in DOMAIN chatSessions :
    /\ currentView = "chat"
    /\ currentSessionId' = chatSessions[i].id
    /\ lastError' = "none"
    /\ UNCHANGED << tabs, submitVars, aiVars, probe, localStorage, clock, currentView, videoData, submit, processingError,
                    chatSessions, isTyping, pending >>

\* handleDeleteChat, on an entry of the chat history: nothing with one session
\* left; remainingSessions[0].id throws a TypeError when nothing remains,
\* after the update of chatSessions was queued and the store was changed
DeleteChat ==
  \E i \in DOMAIN chatSessions :
    LET sessionId         == chatSessions[i].id
        remainingSessions == SelectSeq(chatSessions, LAMBDA session : session.id # sessionId)
    IN  /\ currentView = "chat"
        /\ IF Len(chatSessions) <= 1
             THEN UNCHANGED << chatSessions, localStorage, currentSessionId, lastError >>
             ELSE /\ chatSessions' = remainingSessions
                  /\ localStorage' = saveEffect(deleteVideoChat(localStorage, videoData.id, sessionId),
                                                videoData.id, remainingSessions)
                  /\ IF sessionId = currentSessionId /\ Len(remainingSessions) = 0
                       THEN /\ lastError' = "TypeError"
                            /\ UNCHANGED currentSessionId
                       ELSE /\ lastError' = "none"
                            /\ currentSessionId' = IF sessionId = currentSessionId
                                                     THEN remainingSessions[1].id
                                                     ELSE currentSessionId
        /\ UNCHANGED << tabs, submitVars, aiVars, probe, clock, currentView, videoData, submit, processingError, isTyping, pending >>

\* handleClearCurrentChat, the render after it and the save effect
ClearCurrentSession ==
  /\ currentView = "chat"
  /\ chatSessions' = updateCurrentSession(chatSessions, currentSessionId,
                       << greetingMessage(newChatGreeting(videoData.title), clock) >>)
  /\ localStorage' = saveEffect(localStorage, videoData.id, chatSessions')
  /\ lastError' = "none"
  /\ UNCHANGED << tabs, submitVars, aiVars, clock, currentView, videoData, submit, processingError,
                  currentSessionId, isTyping, pending >>

ClearCurrentChat == ClearCurrentSession /\ UNCHANGED probe

\* the same, with probe keeping the messages the clear removed (the first
\* message, the greeting, is replaced by one of the same kind) and what the
\* session is left with
ClearCurrentChatObserved ==
  /\ ClearCurrentSession
  /\ probe' = [ op |-> "clearCurrentChat", videoId |-> videoData.id,
                sessionId |-> currentSessionId,
                removed |-> UNION { { chatSessions[i].messages[j] : j \in 2..Len(chatSessions[i].messages) } :
                                     i \in { n \in DOMAIN chatSessions : chatSessions[n].id = currentSessionId } },
                left |-> messagesOf(chatSessions', currentSessionId) ]

\* handleClearAllVideoChats
ClearAllVideoChats ==
  /\ currentView = "chat"
  /\ chatSessions' = << defaultSession(videoData, clearAllGreeting(videoData.title), clock) >>
  /\ currentSessionId' = Lit("default")
  /\ localStorage' = saveEffect(clearVideoChats(localStorage, videoData.id),
                                videoData.id, chatSessions')
  /\ lastError' = "none"
  /\ UNCHANGED << tabs, submitVars, aiVars, probe, clock, currentView, videoData, submit, processingError, isTyping, pending >>

Next ==
  \/ Tick
  \/ SubmitVideo
  \/ MetadataResolves
  \/ ProcessingDone
  \/ SubmitFails
  \/ ErrorTimerFires
  \/ Back
  \/ DeleteVideoHistory
  \/ ClearAllHistory
  \/ SendStart
  \/ SendFinish
  \/ NewChat
  \/ SwitchChat
  \/ DeleteChat
  \/ ClearCurrentChat
  \/ ClearAllVideoChats

Spec == Init /\ [][Next]_vars

\* the application with the clears of the current chat observed
NextObserved ==
  \/ Tick
  \/ SubmitVideo
  \/ MetadataResolves
  \/ ProcessingDone
  \/ SubmitFails
  \/ ErrorTimerFires
  \/ Back
  \/ SendStart
  \/ SendFinish
  \/ NewChat
  \/ SwitchChat
  \/ DeleteChat
  \/ ClearCurrentChatObserved
  \/ ClearAllVideoChats

SpecObserved == Init /\ [][NextObserved]_vars

\* the same, with every continuation of a submit run in the end: a promise
\* that is settled has its continuation run, and a timer that is set fires
SpecFair ==
  /\ Spec
  /\ WF_vars(MetadataResolves)
  /\ WF_vars(ProcessingDone)
  /\ WF_vars(SubmitFails)
  /\ WF_vars(ErrorTimerFires)

(***************************************************************************)
(* Two browser tabs on one localStorage.  Each tab has its own             *)
(* ChatInterface with its own chatSessions; the key is the only thing they *)
(* share, and nothing orders the tabs.  getItem and setItem are each one   *)
(* step, so a save of one tab can fall between the getItem and the         *)
(* setItem of a save of the other.  probe keeps the last setItem.          *)
(***************************************************************************)
InitTabs ==
  /\ InitAIService
  /\ InitApp
  /\ probe = NoProbe

TabTick ==
  /\ clock < MaxTabClock
  /\ clock' = clock + 1
  /\ UNCHANGED << tabs, submitVars, aiVars, probe, localStorage, currentView, videoData, submit, processingError,
                  chatSessions, currentSessionId, isTyping, pending, lastError >>

\* a ChatInterface mounts in the tab: its init effect loads the sessions, or
\* creates and saves the first one; the save effect of the next render is
\* then due
TabOpen(t) ==
  \E videoId \in VideoIds :
    LET video    == [ id |-> videoId, title |-> videoInfoTitle(videoId) ]
        existingSessions == getVideoChats(localStorage, video.id)
        sessions == IF Len(existingSessions) > 0
                      THEN existingSessions
                      ELSE << defaultSession(video, initialGreeting(video.title), clock) >>
    IN  /\ tabs[t].pc = "closed"
        /\ tabs' = [ tabs EXCEPT ![t] =
                       [ pc |-> "effect", videoData |-> video, chatSessions |-> sessions,
                         currentSessionId |-> sessions[1].id, stored |-> <<>> ] ]
        /\ IF Len(existingSessions) > 0
             THEN UNCHANGED << localStorage, probe >>
             ELSE /\ localStorage' = saveVideoChats(localStorage, video.id, sessions)
                  /\ probe' = [ op |-> "setItem", tab |-> t, videoId |-> video.id,
                                sessions |-> sessions ]
        /\ UNCHANGED << submitVars, aiVars, viewVars >>

\* handleNewChat in the tab; the save effect of the next render is then due
TabNewChat(t) ==
  LET tab == tabs[t]
      session == newSession(tab.videoData, Len(tab.chatSessions), clock)
  IN  /\ tab.pc = "idle"
      /\ Len(tab.chatSessions) < MaxTabSessions
      /\ tabs' = [ tabs EXCEPT ![t] =
                     [ tab EXCEPT !.pc = "effect",
                                  !.chatSessions = Append(tab.chatSessions, session),
                                  !.currentSessionId = session.id ] ]
      /\ UNCHANGED << submitVars, aiVars, probe, appVars >>

\* the save effect, as far as the getItem of saveVideoChats
TabSaveGetItem(t) ==
  /\ tabs[t].pc = "effect"
  /\ tabs' = [ tabs EXCEPT ![t] = [ @ EXCEPT !.pc = "saving", !.stored = localStorage ] ]
  /\ UNCHANGED << submitVars, aiVars, probe, appVars >>

\* the rest of the save effect: the setItem of saveVideoChats
TabSaveSetItem(t) ==
  LET tab == tabs[t]
  IN  /\ tab.pc = "saving"
      /\ localStorage' = saveEffect(tab.stored, tab.videoData.id, tab.chatSessions)
      /\ probe' = [ op |-> "setItem", tab |-> t, videoId |-> tab.videoData.id,
                    sessions |-> tab.chatSessions ]
      /\ tabs' = [ tabs EXCEPT ![t] = [ @ EXCEPT !.pc = "idle", !.stored = <<>> ] ]
      /\ UNCHANGED << submitVars, aiVars, viewVars >>

NextTabs ==
  \/ TabTick
  \/ \E t \in Tabs : TabOpen(t)
  \/ \E t \in Tabs : TabNewChat(t)
  \/ \E t \in Tabs : TabSaveGetItem(t)
  \/ \E t \in Tabs : TabSaveSetItem(t)

SpecTabs == InitTabs /\ [][NextTabs]_vars

(***************************************************************************)
(* VideoChatStorage called on any value of the key and under any failure   *)
(* of the storage.  Something other than this application can leave any    *)
(* text under the key; probe keeps the last call, the value of the key     *)
(* before it, the failure it met and its outcome.                          *)
(***************************************************************************)
InitRaw ==
  /\ InitAIService
  /\ InitApp
  /\ probe = NoProbe

\* what the key can hold without this application having written it
ForeignTexts == { null, NotJsonText, JsonNullText, JsonNumberText }

RawProbe(op, videoId, failure, outcome) ==
  [ op |-> op, videoId |-> videoId, failure |-> failure, before |-> localStorage,
    thrown |-> outcome.thrown, value |-> outcome.value ]

\* the key is set from outside the application
KeyIsSet ==
  \E text \in ForeignTexts :
    /\ localStorage' = text
    /\ probe' = NoProbe
    /\ UNCHANGED << tabs, submitVars, aiVars, viewVars >>

RawGetVideoChats ==
  \E videoId \in VideoIds, failure \in StorageFailures :
    LET outcome == getVideoChatsCall(localStorage, videoId, failure)
    IN  /\ probe' = RawProbe("getVideoChats", videoId, failure, outcome)
        /\ localStorage' = outcome.stored
        /\ UNCHANGED << tabs, submitVars, aiVars, viewVars >>

RawSaveVideoChats ==
  \E videoId \in VideoIds, failure \in StorageFailures :
    \E sessions \in SeqsUpTo(StoreSessions(videoId), MaxRawSessions) :
      LET outcome == saveVideoChatsCall(localStorage, videoId, sessions, failure)
      IN  /\ probe' = RawProbe("saveVideoChats", videoId, failure, outcome)
          /\ localStorage' = outcome.stored
          /\ UNCHANGED << tabs, submitVars, aiVars, viewVars >>

RawDeleteVideoChat ==
  \E videoId \in VideoIds, failure \in StorageFailures :
    \E session \in StoreSessions(videoId) :
      LET outcome == deleteVideoChatCall(localStorage, videoId, session.id, failure)
      IN  /\ probe' = RawProbe("deleteVideoChat", videoId, failure, outcome)
          /\ localStorage' = outcome.stored
          /\ UNCHANGED << tabs, submitVars, aiVars, viewVars >>

RawClearVideoChats ==
  \E videoId \in VideoIds, failure \in StorageFailures :
    LET outcome == clearVideoChatsCall(localStorage, videoId, failure)
    IN  /\ probe' = RawProbe("clearVideoChats", videoId, failure, outcome)
        /\ localStorage' = outcome.stored
        /\ UNCHANGED << tabs, submitVars, aiVars, viewVars >>

RawClearAllChats ==
  \E failure \in StorageFailures :
    LET outcome == clearAllChatsCall(localStorage, failure)
    IN  /\ probe' = RawProbe("clearAllChats", "", failure, outcome)
        /\ localStorage' = outcome.stored
        /\ UNCHANGED << tabs, submitVars, aiVars, viewVars >>

RawGetAllVideosWithChats ==
  \E failure \in StorageFailures :
    LET outcome == getAllVideosWithChatsCall(localStorage, failure)
    IN  /\ probe' = RawProbe("getAllVideosWithChats", "", failure, outcome)
        /\ localStorage' = outcome.stored
        /\ UNCHANGED << tabs, submitVars, aiVars, viewVars >>

RawGetAllVideosWithChatsLanding ==
  \E failure \in StorageFailures :
    LET outcome == getAllVideosWithChatsLandingCall(localStorage, failure)
    IN  /\ probe' = RawProbe("getAllVideosWithChatsLanding", "", failure, outcome)
        /\ localStorage' = outcome.stored
        /\ UNCHANGED << tabs, submitVars, aiVars, viewVars >>

NextRaw ==
  \/ KeyIsSet
  \/ RawGetVideoChats
  \/ RawSaveVideoChats
  \/ RawDeleteVideoChat
  \/ RawClearVideoChats
  \/ RawClearAllChats
  \/ RawGetAllVideosWithChats
  \/ RawGetAllVideosWithChatsLanding

SpecRaw == InitRaw /\ [][NextRaw]_vars

(***************************************************************************)
(* The formatting of a timestamp and the classification of a question on   *)
(* their own: a caller hands in a number of seconds or a question; probe   *)
(* keeps the call and its result.                                          *)
(***************************************************************************)
\* the questions handed to categorizeQuestion
ClassifiedQuestions ==
  { <<"C","a","n"," ","y","o","u"," ","s","u","m","m","a","r","i","z","e"," ","t","h","e"," ","v","i","d","e","o","?">>,
    <<"H","O","W"," ","t","o"," ","S","U","M","M","A","R","I","Z","E">>,
    <<"S","h","o","w"," ","m","e"," ","a","n"," ","e","x","a","m","p","l","e"," ","o","f"," ","t","h","e"," ","p","r","o","c","e","s","s">>,
    <<"E","x","p","l","a","i","n"," ","t","h","e"," ","m","e","t","h","o","d">>,
    <<"t","h","e"," ","s","t","e","p","s">>,
    <<"W","h","a","t"," ","i","s"," ","R","e","a","c","t">>,
    <<"h","e","l","l","o">>,
    <<"M","a","i","n"," ","P","o","i","n","t","s"," ","p","l","e","a","s","e">>,
    <<"s","o","m","e","h","o","w">>,
    <<"d","e","m","o","n","s","t","r","a","t","e"," ","t","h","e"," ","s","u","m","m","a","r","y">>,
    <<>>,
    <<"a"," ","s","h","o","w","m","a","n">> }

\* the contents handed to makeBriefContent: one, two, three and four
\* sentences, a second sentence with and without a keyword, one of a hundred
\* characters and more, white space around the sentences, no sentence at all
BriefContents ==
  { <<"O","k",".">>,
    <<"Y","e","s","."," ","N","o",".">>,
    <<"Y","e","s","."," ","T","h","e"," ","k","e","y"," ","i","s"," ","s","t","a","t","e","!"," ","M","o","r","e","?"," ","E","n","d",".">>,
    <<"O","n","e","."," ","T","w","o","."," ","T","h","r","e","e",".">>,
    <<" "," ","H","i"," ","t","h","e","r","e","!"," "," ","S","e","e"," ","t","h","e"," ","E","X","A","M","P","L","E",".",".","."," "," ","B","y","e","?">>,
    <<"n","o"," ","e","n","d">>,
    <<>>,
    <<"G","o","!"," ","T","h","e"," ","m","a","i","n"," ","o","n","e","?">>,
    <<"F","i","r","s","t","."," ","T","h","e"," ","s","e","c","o","n","d"," ","p","a","r","t"," ","s","h","o","w","s"," ","v","e","r","y"," ","v","e","r","y"," ","v","e","r","y"," ","v","e","r","y"," ","v","e","r","y"," ","v","e","r","y"," ","v","e","r","y"," ","v","e","r","y"," ","v","e","r","y"," ","v","e","r","y"," ","v","e","r","y"," ","v","e","r","y"," ","v","e","r","y"," ","v","e","r","y"," ","v","e","r","y"," ","v","e","r","y"," ","v","e","r","y"," ","l","o","n","g","."," ","T","h","i","r","d",".">>,
    <<"F","i","r","s","t","."," ","T","h","e"," ","s","e","c","o","n","d"," ","p","a","r","t"," ","s","h","o","w","s"," ","v","e","r","y"," ","v","e","r","y"," ","v","e","r","y"," ","v","e","r","y"," ","v","e","r","y"," ","v","e","r","y"," ","v","e","r","y"," ","v","e","r","y"," ","v","e","r","y"," ","v","e","r","y"," ","v","e","r","y"," ","v","e","r","y"," ","v","e","r","y"," ","v","e","r","y"," ","v","e","r","y"," ","v","e","r","y"," ","v","e","r","y"," ","l","o","n","g",".">> }

InitHelpers ==
  /\ InitAIService
  /\ InitApp
  /\ probe = NoProbe

\* formatTimestamp(seconds), of the AI service and of the transcription
\* service
CallFormatTimestamp ==
  \E seconds \in 0..MaxSeconds :
    /\ probe' = [ op |-> "formatTimestamp", seconds |-> seconds,
                  result |-> formatTimestamp(seconds),
                  transcription |-> transcriptionFormatTimestamp(seconds) ]
    /\ UNCHANGED << tabs, submitVars, aiVars, appVars >>

\* categorizeQuestion(question) and isQuestionVideoRelated(question)
CallCategorizeQuestion ==
  \E question \in ClassifiedQuestions :
    /\ probe' = [ op |-> "categorizeQuestion", question |-> question,
                  result |-> categorizeQuestion(question),
                  isVideoRelated |-> isQuestionVideoRelated(question, videoTitle, transcript) ]
    /\ UNCHANGED << tabs, submitVars, aiVars, appVars >>

\* makeBriefContent(content), and makeBriefContent of what it returned
CallMakeBriefContent ==
  \E content \in BriefContents :
    /\ probe' = [ op |-> "makeBriefContent", content |-> content,
                  result |-> makeBriefContent(content),
                  again |-> makeBriefContent(makeBriefContent(content)) ]
    /\ UNCHANGED << tabs, submitVars, aiVars, appVars >>

NextHelpers == CallFormatTimestamp \/ CallCategorizeQuestion \/ CallMakeBriefContent

SpecHelpers == InitHelpers /\ [][NextHelpers]_vars

(***************************************************************************)
(* Overlapping submits.  LandingPage.handleSubmit waits 500 ms before it   *)
(* calls App.handleVideoSubmit, a click on a video of the history calls it *)
(* at once, and nothing cancels a handleVideoSubmit already running: each  *)
(* call in progress is one entry of flows, and what it does after an await *)
(* is one step.  The VideoProcessor shown meanwhile keeps its steps.       *)
(***************************************************************************)

\* the calls in progress the model follows at one time
MaxFlows == 2

\* the time the model follows overlapping submits for, in milliseconds
MaxSubmitClock == 7000

\* setTimeout(resolve, 500) of LandingPage.handleSubmit
SubmitDelay == 500

\* Math.random() * 2000 of transcribeVideo: it resolves less than this after
\* TranscriptionDelay
TranscriptionSpread == 2000

\* how often React calls an updater passed to setSteps: once, or twice when
\* the tree is rendered in StrictMode by a development build
UpdaterCalls == { 1, 2 }

\* useState([...]) of VideoProcessor: the status of its four steps
InitialSteps == << "processing", "pending", "pending", "pending" >>

\* no VideoProcessor is mounted
NoSteps == <<>>

\* Array.prototype.find on the statuses: the first position with the status,
\* 0 for undefined
findStatus(st, status) ==
  LET at == { i \in DOMAIN st : st[i] = status }
  IN  IF at = {} THEN 0 ELSE CHOOSE i \in at : \A j \in at : i <= j

\* the updater of the interval: the processing step is completed and the
\* first pending step starts; the step objects are changed in place
completeStep(st) ==
  LET currentProcessing == findStatus(st, "processing")
      completed == [ st EXCEPT ![currentProcessing] = "completed" ]
      nextStep  == findStatus(completed, "pending")
  IN  IF currentProcessing = 0 THEN st
      ELSE IF nextStep = 0 THEN completed
      ELSE [ completed EXCEPT ![nextStep] = "processing" ]

\* an updater that starts the next step and leaves the processing one
completeStepKeepingCurrent(st) ==
  LET nextStep == findStatus(st, "pending")
  IN  IF findStatus(st, "processing") = 0 \/ nextStep = 0 THEN st
      ELSE [ st EXCEPT ![nextStep] = "processing" ]

\* the updater of the effect when error is set
markError(st) ==
  LET processingStep == findStatus(st, "processing")
  IN  IF processingStep = 0 THEN st ELSE [ st EXCEPT ![processingStep] = "error" ]

\* the updater called as often as React calls it, on the same step objects
RECURSIVE callUpdater(_, _)
callUpdater(st, calls) ==
  IF calls = 0 THEN st ELSE callUpdater(completeStep(st), calls - 1)

\* the steps after App renders newView with newError: a VideoProcessor is
\* mounted with the initial steps when the view becomes 'processor', keeps
\* its steps while it stays, and its effect marks the error
renderProcessor(oldView, newView, newError, st) ==
  LET mounted == IF oldView = "processor" THEN st ELSE InitialSteps
  IN  IF newView # "processor" THEN NoSteps
      ELSE IF newError # NoProcessingError THEN markError(mounted)
      ELSE mounted

\* hasError and progress of VideoProcessor
hasError(st) == \E i \in DOMAIN st : st[i] = "error"

progress(st) ==
  IF hasError(st) THEN 0
  ELSE (Cardinality({ i \in DOMAIN st : st[i] = "completed" }) * 100) \div Len(st)

\* flows without its k-th entry
WithoutFlow(k) == [ i \in 1..(Len(flows) - 1) |-> IF i < k THEN flows[i] ELSE flows[i + 1] ]

\* the ChatInterface is unmounted when the view leaves 'chat'
ChatLeft ==
  /\ chatSessions' = <<>>
  /\ currentSessionId' = <<>>
  /\ isTyping' = FALSE
  /\ pending' = NoSend
  /\ lastError' = "none"

InitSubmits ==
  /\ InitAIService
  /\ InitApp
  /\ probe = NoProbe

\* time passes; a timer that is due fires first, and transcribeVideo has
\* resolved before TranscriptionDelay + TranscriptionSpread have passed
Elapse ==
  /\ clock + SubmitDelay <= MaxSubmitClock
  /\ \A k \in DOMAIN flows :
       /\ flows[k].stage \in { "delay", "error" } => clock < flows[k].due
       /\ flows[k].stage = "transcribe" => clock + SubmitDelay < flows[k].due + TranscriptionSpread
  /\ clock' = clock + SubmitDelay
  /\ UNCHANGED << tabs, submitVars, aiVars, probe, localStorage, currentView, videoData, submit,
                  processingError, chatSessions, currentSessionId, isTyping, pending, lastError >>

\* LandingPage.handleSubmit up to its await; the button is disabled while
\* isLoading
LandingSubmit ==
  \E url \in SubmitUrls :
    /\ currentView = "landing"
    /\ ~isLoading
    /\ Len(flows) < MaxFlows
    /\ isLoading' = TRUE
    /\ flows' = Append(flows, [ url |-> url, videoId |-> "", stage |-> "delay",
                                due |-> clock + SubmitDelay ])
    /\ UNCHANGED << tabs, steps, aiVars, probe, localStorage, clock, currentView, videoData, submit,
                    processingError, chatSessions, currentSessionId, isTyping, pending, lastError >>

\* App.handleVideoSubmit up to the first await, and its catch when
\* getVideoInfo throws on the URL; flow is the call's entry before it
startSubmit(flow, others) ==
  LET info  == getVideoInfo(flow.url)
      error == IF info.thrown THEN info.message ELSE NoProcessingError
  IN  /\ currentView' = "processor"
      /\ processingError' = error
      /\ steps' = renderProcessor(currentView, "processor", error, steps)
      /\ isLoading' = FALSE
      /\ ChatLeft
      /\ flows' = Append(others,
                    IF info.thrown
                      THEN [ flow EXCEPT !.stage = "error", !.due = clock + ErrorReturnDelay ]
                      ELSE [ flow EXCEPT !.stage = "info", !.videoId = info.videoId, !.due = clock ])
      /\ UNCHANGED << tabs, aiVars, probe, localStorage, clock, videoData, submit >>

\* the wait of handleSubmit ends: onVideoSubmit(videoUrl), whatever is
\* displayed by now
DelayEnds ==
  \E k \in DOMAIN flows :
    /\ flows[k].stage = "delay"
    /\ clock = flows[k].due
    /\ startSubmit(flows[k], WithoutFlow(k))

\* LandingPage.handleVideoSelect: a click on a video of the history
LandingSelect ==
  \E v \in DOMAIN getAllVideosWithChatsLanding(localStorage) :
    /\ currentView = "landing"
    /\ Len(flows) < MaxFlows
    /\ startSubmit([ url |-> watchUrl(getAllVideosWithChatsLanding(localStorage)[v].videoId),
                     videoId |-> "", stage |-> "info", due |-> clock ], flows)

\* the metadata provider answers: getVideoInfo resolves and handleVideoSubmit
\* calls transcribeVideo
InfoResolves ==
  \E k \in DOMAIN flows :
    /\ flows[k].stage = "info"
    /\ flows' = [ flows EXCEPT ![k].stage = "transcribe", ![k].due = clock + TranscriptionDelay ]
    /\ UNCHANGED << tabs, steps, isLoading, aiVars, probe, localStorage, clock, currentView, videoData,
                    submit, processingError, chatSessions, currentSessionId, isTyping, pending,
                    lastError >>

\* the metadata provider fails: the catch of handleVideoSubmit sets the
\* error and schedules the return to the landing page
InfoFails ==
  \E k \in DOMAIN flows :
    /\ flows[k].stage = "info"
    /\ processingError' = failedToAnalyzeMessage
    /\ steps' = renderProcessor(currentView, currentView, failedToAnalyzeMessage, steps)
    /\ flows' = [ flows EXCEPT ![k].stage = "error", ![k].due = clock + ErrorReturnDelay ]
    /\ UNCHANGED << tabs, isLoading, aiVars, probe, localStorage, clock, currentView, videoData,
                    submit, chatSessions, currentSessionId, isTyping, pending, lastError >>

\* handleVideoSubmit after its awaits: setTranscript, setVideoData,
\* setCurrentView('chat'); the ChatInterface is mounted, or is given the new
\* videoData when it is mounted already, and its effects load or create the
\* sessions of the video and save them
TranscriptionResolves ==
  \E k \in DOMAIN flows :
    LET flow     == flows[k]
        video    == [ id |-> flow.videoId, title |-> videoInfoTitle(flow.videoId) ]
        context  == setTranscript(FullText(MakeSegments(transcriptTexts(video.id))),
                                  MakeSegments(transcriptTexts(video.id)), video.title, flow.url)
        existingSessions == getVideoChats(localStorage, video.id)
        sessions == IF Len(existingSessions) > 0
                      THEN existingSessions
                      ELSE << defaultSession(video, initialGreeting(video.title), clock) >>
        sameVideo == currentView = "chat" /\ videoData = video
    IN  /\ flow.stage = "transcribe"
        /\ clock >= flow.due
        /\ segments' = context.segments
        /\ transcript' = context.transcript
        /\ videoTitle' = context.videoTitle
        /\ videoUrl' = context.videoUrl
        /\ videoData' = video
        /\ currentView' = "chat"
        /\ steps' = NoSteps
        /\ isLoading' = FALSE
        /\ flows' = WithoutFlow(k)
        /\ IF sameVideo
             THEN UNCHANGED << chatSessions, currentSessionId, localStorage >>
             ELSE /\ chatSessions' = sessions
                  /\ currentSessionId' = sessions[1].id
                  /\ localStorage' = saveEffect(localStorage, video.id, sessions)
        /\ UNCHANGED << tabs, geminiConfigured, aiCall, probe, clock, submit, processingError,
                        isTyping, pending, lastError >>

\* the timer of a catch fires: setCurrentView('landing'),
\* setProcessingError(null), whatever is displayed by now
TimerFires ==
  \E k \in DOMAIN flows :
    /\ flows[k].stage = "error"
    /\ clock = flows[k].due
    /\ currentView' = "landing"
    /\ processingError' = NoProcessingError
    /\ steps' = NoSteps
    /\ isLoading' = (currentView = "landing" /\ isLoading)
    /\ ChatLeft
    /\ flows' = WithoutFlow(k)
    /\ UNCHANGED << tabs, aiVars, probe, localStorage, clock, videoData, submit >>

\* the interval of VideoProcessor fires while error is null
ProcessorTick ==
  \E calls \in UpdaterCalls :
    /\ currentView = "processor"
    /\ processingError = NoProcessingError
    /\ steps' = callUpdater(steps, calls)
    /\ UNCHANGED << tabs, flows, isLoading, aiVars, probe, appVars >>

NextSubmits ==
  \/ Elapse
  \/ LandingSubmit
  \/ DelayEnds
  \/ LandingSelect
  \/ InfoResolves
  \/ InfoFails
  \/ TranscriptionResolves
  \/ TimerFires
  \/ ProcessorTick
  \/ Back

SpecSubmits == InitSubmits /\ [][NextSubmits]_vars

(***************************************************************************)
(* Properties of the response generator and the segment matcher.           *)
(***************************************************************************)
\* a response text that has at least one character
ContentNonEmpty(content) ==
  /\ content # undefined
  /\ \E i \in DOMAIN content : content[i] # ""

\* C1: with the remote provider unconfigured, a call of generateResponse or
\* generateDetailedResponse makes no remote attempt and never rejects: the
\* fallback throws for no random draw, and the call resolves with a response
\* whose content is non-empty, whatever the question and the video context.
C1_FallbackAlwaysAnswers ==
  (aiCall.pc # "idle" /\ ~aiCall.configured) =>
    /\ aiCall.pc \in { "local", "resolved" }
    /\ aiCall.remoteAttempts = 0
    /\ aiCall.pc = "local" =>
         \A r1 \in RandomUnit, r2 \in RandomUnit :
           ~localResponse(aiCall.mode, aiCall.question, r1, r2).thrown
    /\ aiCall.pc = "resolved" => ContentNonEmpty(aiCall.response.content)

\* C1 witness: an unconfigured call resolved for the empty question on the
\* empty video context, and one for a question of type 'process' that
\* matched a segment
C1_Witness ==
  /\ aiCall.pc = "resolved" /\ ~aiCall.configured
  /\ \/ /\ aiCall.question = <<>> /\ segments = <<>> /\ transcript = <<>> /\ videoTitle = <<>>
     \/ /\ categorizeQuestion(aiCall.question) = "process"
        /\ Len(aiCall.response.relevantSegments) > 0

\* C2: with the remote provider configured, a call makes exactly one remote
\* attempt; if the attempt fails the call does not reject but goes on to the
\* local fallback, and what it resolves with is the local response.
C2_OneRemoteAttemptThenFallback ==
  (aiCall.pc # "idle" /\ aiCall.configured) =>
    /\ aiCall.remoteAttempts = 1
    /\ aiCall.pc # "rejected"
    /\ aiCall.remoteFailed => aiCall.pc \in { "local", "resolved" }
    /\ (aiCall.remoteFailed /\ aiCall.pc = "resolved") =>
         \E r1 \in RandomUnit, r2 \in RandomUnit :
           LET local == localResponse(aiCall.mode, aiCall.question, r1, r2)
           IN  ~local.thrown /\ aiCall.response = local.value

\* C2 witness: a configured call whose remote attempt failed and which
\* resolved
C2_Witness ==
  /\ aiCall.pc = "resolved" /\ aiCall.configured /\ aiCall.remoteFailed
  /\ aiCall.remoteAttempts = 1

\* the score the claim gives a segment: twice the occurrences of each
\* extracted keyword in the lower-cased text, summed over the keywords
RECURSIVE KeywordScore(_, _)
KeywordScore(keywords, text) ==
  IF Len(keywords) = 0 THEN 0
  ELSE 2 * MatchCount(toLowerCase(text), Head(keywords)) + KeywordScore(Tail(keywords), text)

\* the place of a segment in the transcript (the starts are distinct)
PositionOf(seg) == CHOOSE j \in DOMAIN segments : segments[j] = seg

\* C3: findRelevantSegments returns at most 3 segments of the transcript,
\* each of score > 0, in descending order of score, segments of equal score
\* in transcript order, and no segment left out scores higher than a
\* returned one.
C3_TopThreeByScore ==
  probe.op = "findRelevantSegments" =>
    LET result   == probe.result
        keywords == extractKeywords(probe.question)
        score(s) == KeywordScore(keywords, s.text)
    IN  /\ Len(result) <= 3
        /\ \A i \in DOMAIN result :
             /\ \E j \in DOMAIN segments : segments[j] = result[i]
             /\ score(result[i]) > 0
        /\ \A i, j \in DOMAIN result :
             i < j =>
               \/ score(result[i]) > score(result[j])
               \/ /\ score(result[i]) = score(result[j])
                  /\ PositionOf(result[i]) < PositionOf(result[j])
        /\ \A j \in DOMAIN segments :
             (\A i \in DOMAIN result : result[i] # segments[j]) =>
               \A i \in DOMAIN result : score(segments[j]) <= score(result[i])

\* C3 witness: three segments returned, two of them of equal score, from a
\* transcript with a fourth matching segment that was left out
C3_Witness ==
  /\ probe.op = "findRelevantSegments"
  /\ Len(probe.result) = 3
  /\ LET keywords == extractKeywords(probe.question)
     IN  /\ KeywordScore(keywords, probe.result[1].text) > KeywordScore(keywords, probe.result[2].text)
         /\ KeywordScore(keywords, probe.result[2].text) = KeywordScore(keywords, probe.result[3].text)
         /\ PositionOf(probe.result[1]) > PositionOf(probe.result[2])
         /\ \E j \in DOMAIN segments :
              /\ \A i \in DOMAIN probe.result : probe.result[i] # segments[j]
              /\ KeywordScore(keywords, segments[j].text) > 0

\* the tokens of a question: its lower-cased text without punctuation,
\* split at white space
Tokens(question) == SplitWhitespace(StripNonWord(toLowerCase(question)))

\* a question all of whose tokens are stop-words or at most 2 characters long
OnlyStopWords(question) ==
  \A i \in DOMAIN Tokens(question) :
    Len(Tokens(question)[i]) <= 2 \/ Contains(stopWords, Tokens(question)[i])

\* C4: for a question whose tokens are all stop-words or of length <= 2, and
\* for the empty question, extractKeywords and findRelevantSegments both
\* return the empty sequence, whatever the segments contain.
C4_StopWordsMatchNothing ==
  (probe.op \in { "extractKeywords", "findRelevantSegments" } /\ OnlyStopWords(probe.question)) =>
    probe.result = <<>>

\* C4 witness: a non-empty question of stop-words only, asked of a
\* transcript in which one of its words occurs
C4_Witness ==
  /\ probe.op = "findRelevantSegments"
  /\ OnlyStopWords(probe.question)
  /\ \E i \in DOMAIN Tokens(probe.question) :
       /\ Len(Tokens(probe.question)[i]) > 2
       /\ \E j \in DOMAIN segments :
            Includes(toLowerCase(segments[j].text), Tokens(probe.question)[i])
  /\ probe.result = <<>>

\* C5: saveVideoChats(v, S) immediately followed by getVideoChats(v) returns
\* a list equal to S: the same sessions in the same order, each with the same
\* id, title, videoId, videoTitle, createdAt instant and the same messages.
C5_SaveThenGetRoundTrip ==
  probe.op = "saveVideoChats" =>
    getVideoChats(localStorage, probe.videoId) = probe.sessions

\* a list of two sessions, one created off a whole second and holding a user
\* message, saved over another list of the same video
C5_Witness ==
  /\ probe.op = "saveVideoChats"
  /\ Len(probe.sessions) = 2
  /\ \E i \in DOMAIN probe.sessions :
       /\ probe.sessions[i].createdAt % MsPerSecond # 0
       /\ Len(probe.sessions[i].messages) > 1
  /\ HasKey(getAllVideoChats(probe.before), probe.videoId)
  /\ getVideoChats(probe.before, probe.videoId) # probe.sessions
  /\ getVideoChats(localStorage, probe.videoId) = probe.sessions

\* the video ids getAllVideosWithChats lists
ListedVideoIds(list) == { list[i].videoId : i \in DOMAIN list }

\* C6: if video v has exactly one stored session, with id s, then after
\* deleteVideoChat(v, s) the key v is absent from the persisted index,
\* getVideoChats(v) is empty and v is not in getAllVideosWithChats().
C6_DeleteOnlySessionRemovesKey ==
  ( /\ probe.op = "deleteVideoChat"
    /\ HasKey(getAllVideoChats(probe.before), probe.videoId)
    /\ Len(getVideoChats(probe.before, probe.videoId)) = 1
    /\ getVideoChats(probe.before, probe.videoId)[1].id = probe.sessionId )
  => /\ ~HasKey(getAllVideoChats(localStorage), probe.videoId)
     /\ getVideoChats(localStorage, probe.videoId) = <<>>
     /\ probe.videoId \notin ListedVideoIds(getAllVideosWithChats(localStorage))
     /\ probe.videoId \notin ListedVideoIds(getAllVideosWithChatsLanding(localStorage))

\* the only session of a video is deleted while another video keeps its own
C6_Witness ==
  /\ probe.op = "deleteVideoChat"
  /\ HasKey(getAllVideoChats(probe.before), probe.videoId)
  /\ Len(getVideoChats(probe.before, probe.videoId)) = 1
  /\ getVideoChats(probe.before, probe.videoId)[1].id = probe.sessionId
  /\ Len(getAllVideoChats(probe.before)) = 2
  /\ Len(getAllVideoChats(localStorage)) = 1
  /\ ~HasKey(getAllVideoChats(localStorage), probe.videoId)

\* the createdAt instants of the sessions stored for a video, of all videos
CreatedAtOf(stored, videoId) ==
  { getVideoChats(stored, videoId)[i].createdAt : i \in DOMAIN getVideoChats(stored, videoId) }

AllCreatedAt(stored) ==
  UNION { CreatedAtOf(stored, getAllVideoChats(stored)[k].videoId) :
            k \in DOMAIN getAllVideoChats(stored) }

\* the last store call appended one session to the list of its video, and
\* that session was created later than every session stored before
AddedLaterSession ==
  /\ probe.op = "saveVideoChats"
  /\ Len(probe.sessions) > 0
  /\ SubSeq(probe.sessions, 1, Len(probe.sessions) - 1)
       = getVideoChats(probe.before, probe.videoId)
  /\ \A t \in AllCreatedAt(probe.before) : probe.sessions[Len(probe.sessions)].createdAt > t

\* each stored video once, latest activity first, the activity being the
\* latest createdAt of the video's sessions
ListsVideosByActivity(stored, list) ==
  /\ Len(list) = Len(getAllVideoChats(stored))
  /\ \A k \in DOMAIN getAllVideoChats(stored) :
       Cardinality({ i \in DOMAIN list : list[i].videoId = getAllVideoChats(stored)[k].videoId }) = 1
  /\ \A i, j \in DOMAIN list : i < j => list[i].lastActivity >= list[j].lastActivity
  /\ \A i \in DOMAIN list :
       /\ list[i].chatCount = Len(getVideoChats(stored, list[i].videoId))
       /\ CreatedAtOf(stored, list[i].videoId) # {} =>
            /\ list[i].lastActivity \in CreatedAtOf(stored, list[i].videoId)
            /\ \A t \in CreatedAtOf(stored, list[i].videoId) : t <= list[i].lastActivity

\* C7: after any sequence of store operations getAllVideosWithChats() lists
\* each stored video exactly once, ordered by lastActivity descending, where
\* lastActivity is the latest createdAt among the video's sessions; adding to
\* a video a session created later than every other stored session makes
\* that video the first entry.  Both copies of the store are held to it.
C7_VideosListedByLastActivity ==
  /\ ListsVideosByActivity(localStorage, getAllVideosWithChats(localStorage))
  /\ ListsVideosByActivity(localStorage, getAllVideosWithChatsLanding(localStorage))
  /\ AddedLaterSession =>
       /\ getAllVideosWithChats(localStorage)[1].videoId = probe.videoId
       /\ getAllVideosWithChatsLanding(localStorage)[1].videoId = probe.videoId

\* a session added to the video listed last moves it in front of the other
C7_Witness ==
  /\ AddedLaterSession
  /\ Len(getAllVideosWithChats(probe.before)) = 2
  /\ getAllVideosWithChats(probe.before)[2].videoId = probe.videoId
  /\ getAllVideosWithChats(probe.before)[1].lastActivity
       > getAllVideosWithChats(probe.before)[2].lastActivity
  /\ getAllVideosWithChats(localStorage)[1].videoId = probe.videoId
  /\ getAllVideosWithChats(localStorage)[2].lastActivity > 0

\* the sessions persisted for the videos of the index, as getVideoChats reads them
PersistedSessions ==
  UNION { Range(getVideoChats(localStorage, getAllVideoChats(localStorage)[k].videoId)) :
            k \in DOMAIN getAllVideoChats(localStorage) }

\* the first message of a session is one of the assistant greetings
StartsWithGreeting(session) ==
  /\ Len(session.messages) >= 1
  /\ session.messages[1].type = "assistant"
  /\ session.messages[1].content \in
       { initialGreeting(session.videoTitle), newChatGreeting(session.videoTitle),
         clearAllGreeting(session.videoTitle) }

\* C8: in every reachable state of the chat view every session, in memory and
\* persisted, has at least one message and its first message is an assistant
\* greeting, after creation, new chat, send, clear, clear all, switch and delete.
C8_EverySessionStartsWithGreeting ==
  /\ \A i \in DOMAIN chatSessions : StartsWithGreeting(chatSessions[i])
  /\ \A session \in PersistedSessions : StartsWithGreeting(session)

\* C9: once the chat view of a video has initialised, its session list is
\* never empty, whatever new-chat, delete, clear and send actions follow.
C9_SessionListNeverEmpty ==
  currentView = "chat" => Len(chatSessions) > 0

\* C10: in every reachable state of the persisted index each videoId key that
\* is present maps to a non-empty session list; a video whose sessions have
\* all been removed has no key at all.
C10_StoredKeysHaveSessions ==
  \A k \in DOMAIN getAllVideoChats(localStorage) :
    Len(getAllVideoChats(localStorage)[k].sessions) > 0

\* the chat view has lost every session of its video, whose key is gone with
\* them, while the other video keeps its sessions under its key
C10_Witness ==
  /\ currentView = "chat"
  /\ chatSessions = <<>>
  /\ ~HasKey(getAllVideoChats(localStorage), videoData.id)
  /\ Len(getAllVideoChats(localStorage)) = 1
  /\ Len(getAllVideoChats(localStorage)[1].sessions) >= 2

\* the messages of a session keep the order they were submitted in: no
\* message is older than the one before it, and a reply stands directly
\* after a user message
InSubmissionOrder(messages) ==
  \A i \in 2..Len(messages) :
    /\ messages[i].type = "assistant" => messages[i - 1].type = "user"
    /\ messages[i - 1].timestamp <= messages[i].timestamp

C12_LastWriteWins ==
  probe.op = "setItem" =>
    getVideoChats(localStorage, probe.videoId) = probe.sessions

\* both tabs hold the same video with different lists, both have saved, and
\* the last save was tab B's
C12_Witness ==
  /\ tabs["A"].pc = "idle"
  /\ tabs["B"].pc = "idle"
  /\ tabs["A"].videoData.id = tabs["B"].videoData.id
  /\ Len(tabs["A"].chatSessions) = 2
  /\ Len(tabs["B"].chatSessions) = 2
  /\ tabs["A"].chatSessions # tabs["B"].chatSessions
  /\ probe.op = "setItem"
  /\ probe.tab = "B"

\* the reads of the store
StoreReads == { "getVideoChats", "getAllVideosWithChats", "getAllVideosWithChatsLanding" }

\* C13: when the key is absent or holds a value that is not a well-formed
\* index, getVideoChats(v) returns the empty list for every v and
\* getAllVideosWithChats() returns the empty list, without an exception.
C13_NoIndexReadsAsEmpty ==
  ( /\ probe.op \in StoreReads
    /\ probe.failure = "none"
    /\ probe.before.kind # "json" )
  => ( ~probe.thrown /\ probe.value = <<>> )

\* the operations of the store that write the key
StoreWrites == { "saveVideoChats", "deleteVideoChat", "clearVideoChats", "clearAllChats" }

\* C14: no operation of the store lets a failure of the storage reach its
\* caller: when the storage is denied, or is full and the operation writes,
\* the operation returns normally, and a read on a denied storage returns
\* what an empty store gives.
C14_StorageFailureNeverPropagates ==
  ( /\ probe.op \in StoreReads \cup StoreWrites
    /\ probe.before.kind \in { "null", "json" }
    /\ probe.failure = "denied" \/ (probe.failure = "quota" /\ probe.op \in StoreWrites) )
  => ( ~probe.thrown /\ probe.value = <<>> )

\* the video context AIService holds
AIContext ==
  [ transcript |-> transcript, segments |-> segments,
    videoTitle |-> videoTitle, videoUrl |-> videoUrl ]

\* the context one setTranscript call of App leaves for a submitted URL
ContextOf(url) ==
  LET videoId == extractVideoId(url)
  IN  setTranscript(FullText(MakeSegments(transcriptTexts(videoId))),
                    MakeSegments(transcriptTexts(videoId)), videoInfoTitle(videoId), url)

\* a step of a submit that has failed or fails with this step
FailingSubmitStep == submit.active /\ (submit.thrown \/ (submit'.active /\ submit'.failed))

\* C15: the video context of AIService is only ever replaced as a whole:
\* the transcript, segments, title and url are all those of one setTranscript
\* call (title and url empty when omitted), and a submit that fails leaves
\* all four fields as they were before it.
C15_ContextReplacedAsAWhole ==
  /\ [](\/ AIContext = setTranscript(<<>>, <<>>, undefined, undefined)
        \/ \E url \in SubmitUrls : extractVideoId(url) # "" /\ AIContext = ContextOf(url))
  /\ [](\A title \in { undefined, videoTitle }, url \in { undefined, videoUrl } :
          LET context == setTranscript(transcript, segments, title, url)
          IN  /\ context.transcript = transcript
              /\ context.segments = segments
              /\ context.videoTitle = (IF title = undefined THEN <<>> ELSE videoTitle)
              /\ context.videoUrl = (IF url = undefined THEN <<>> ELSE videoUrl))
  /\ [][FailingSubmitStep => AIContext' = AIContext]_vars

\* a submit has failed and shows its error while the context still is the
\* one of the video opened before
C15_Witness ==
  /\ currentView = "processor"
  /\ submit.active
  /\ submit.failed
  /\ processingError # NoProcessingError
  /\ \E url \in SubmitUrls : extractVideoId(url) # "" /\ AIContext = ContextOf(url)

\* the submit in progress is one of a URL without a video id
InvalidSubmit == submit.active /\ extractVideoId(submit.url) = ""

\* C16: a submit of a URL without a recognisable video id fails in
\* getVideoInfo before any metadata or transcription call; the processor
\* shows the error, the chat view is never entered for that submit, and
\* after the fixed delay the application is back on the landing page with
\* the error cleared.
C16_InvalidUrlReturnsToLanding ==
  /\ [](InvalidSubmit =>
          /\ ~submit.metadataCalled
          /\ ~submit.transcriptionCalled
          /\ currentView = "processor"
          /\ submit.failed => processingError = invalidUrlMessage)
  /\ [][InvalidSubmit =>
          \/ InvalidSubmit' /\ currentView' = "processor" /\ clock' = clock
          \/ /\ submit.failed
             /\ ~submit'.active
             /\ currentView' = "landing"
             /\ processingError' = NoProcessingError
             /\ clock' = clock + ErrorReturnDelay]_vars
  /\ InvalidSubmit ~> (currentView = "landing" /\ processingError = NoProcessingError)

\* the processor shows the error of a URL without a video id
C16_Witness ==
  /\ InvalidSubmit
  /\ submit.failed
  /\ currentView = "processor"
  /\ processingError = invalidUrlMessage

\* C17: for every whole number of seconds s >= 0, formatTimestamp(s) is
\* floor(s / 60), a colon, and s mod 60 written with exactly two digits;
\* 95 gives "1:35", 59 gives "0:59", 0 gives "0:00"; the AI service and the
\* transcription service format identically.
C17_TimestampFormat ==
  probe.op = "formatTimestamp" =>
    LET s    == probe.seconds
        tens == (s % 60) \div 10
        ones == (s % 60) % 10
    IN  /\ probe.result = DecimalString(s \div 60) \o << ":", DigitChars[tens + 1], DigitChars[ones + 1] >>
        /\ probe.transcription = probe.result
        /\ s = 95 => probe.result = << "1", ":", "3", "5" >>
        /\ s = 59 => probe.result = << "0", ":", "5", "9" >>
        /\ s = 0 => probe.result = << "0", ":", "0", "0" >>

\* ten minutes and five seconds are formatted, by both services, as "10:05"
C17_Witness ==
  /\ probe.op = "formatTimestamp"
  /\ probe.seconds = 605
  /\ probe.result = << "1", "0", ":", "0", "5" >>
  /\ probe.transcription = << "1", "0", ":", "0", "5" >>

\* the call of the response generator has resolved with the local response
LocalResolved == aiCall.pc = "resolved" /\ (~aiCall.configured \/ aiCall.remoteFailed)

\* C18: in the local path, in brief and in detailed mode, the response
\* carries a timestamp exactly when relevantSegments is non-empty, and then
\* it is the formatted start of the first returned segment, which no segment
\* outscores; relevantSegments is non-empty only if isVideoRelated is true,
\* and a question unrelated to the video yields empty relevantSegments and
\* no timestamp.
C18_TimestampIffSegments ==
  LocalResolved =>
    LET response == aiCall.response
        keywords == extractKeywords(aiCall.question)
        related  == isQuestionVideoRelated(aiCall.question, videoTitle, transcript)
    IN  /\ (response.timestamp # undefined) <=> (Len(response.relevantSegments) > 0)
        /\ Len(response.relevantSegments) > 0 =>
             /\ response.timestamp = formatTimestamp(response.relevantSegments[1].start)
             /\ response.isVideoRelated
             /\ \A j \in DOMAIN segments :
                  KeywordScore(keywords, segments[j].text)
                    <= KeywordScore(keywords, response.relevantSegments[1].text)
        /\ response.isVideoRelated = related
        /\ ~related => (response.relevantSegments = <<>> /\ response.timestamp = undefined)

\* a brief local response whose first segment is the second of the
\* transcript, stamped with that segment's start
C18_Witness ==
  /\ LocalResolved
  /\ aiCall.mode = "brief"
  /\ Len(aiCall.response.relevantSegments) = 2
  /\ aiCall.response.relevantSegments[1] = segments[2]
  /\ aiCall.response.timestamp = << "0", ":", "2", "8" >>

\* the rules of the claim, in the order they are tested
CategoryRules ==
  << [ category |-> "summary", words |-> summaryWords ],
     [ category |-> "explanation", words |-> explanationWords ],
     [ category |-> "example", words |-> exampleWords ],
     [ category |-> "process", words |-> processWords ] >>

\* text holds word somewhere
HasSubstring(text, word) ==
  \E i \in 1..(Len(text) - Len(word) + 1) : SubSeq(text, i, i + Len(word) - 1) = word

\* the rules that match a question, case-insensitively by substring
MatchingRules(question) ==
  { i \in DOMAIN CategoryRules :
      \E k \in DOMAIN CategoryRules[i].words :
        HasSubstring(toLowerCase(question), CategoryRules[i].words[k]) }

\* C19: categorizeQuestion returns the category of the first rule that
\* matches, in the order summary, explanation, example, process, else
\* default, matching case-insensitively by substring; a question matching
\* several rules gets the earliest one, and "Can you summarize the video?"
\* is summary and video-related.
C19_FirstMatchingRuleWins ==
  probe.op = "categorizeQuestion" =>
    LET matching == MatchingRules(probe.question)
    IN  /\ matching = {} => probe.result = "default"
        /\ matching # {} =>
             probe.result = CategoryRules[CHOOSE i \in matching : \A j \in matching : i <= j].category
        /\ probe.question = <<"C","a","n"," ","y","o","u"," ","s","u","m","m","a","r","i","z","e"," ","t","h","e"," ","v","i","d","e","o","?">> =>
             (probe.result = "summary" /\ probe.isVideoRelated)

\* a question in capitals that matches the first and the second rule is
\* classified by the first
C19_Witness ==
  /\ probe.op = "categorizeQuestion"
  /\ probe.question = <<"H","O","W"," ","t","o"," ","S","U","M","M","A","R","I","Z","E">>
  /\ MatchingRules(probe.question) = { 1, 2 }
  /\ probe.result = "summary"

\* C20: whenever the chat view is idle, the persisted session list of the
\* open video equals the in-memory session list; so a user message and an
\* assistant message are persisted in the step that appends them, the user
\* message while its reply is still awaited.
C20_PersistedEqualsInMemory ==
  currentView = "chat" => getVideoChats(localStorage, videoData.id) = chatSessions

\* a reply is awaited in a view with two sessions, and the stored list
\* already holds the user message
C20_Witness ==
  /\ currentView = "chat"
  /\ Len(pending) = 1
  /\ Len(chatSessions) = 2
  /\ \E i \in DOMAIN chatSessions :
       /\ chatSessions[i].id = pending[1].sessionId
       /\ Len(chatSessions[i].messages) = 2
       /\ getVideoChats(localStorage, videoData.id)[i].messages[2].type = "user"

(***************************************************************************)
(* The frame of the store operations and the agreement of the two copies   *)
(* of VideoChatStorage.                                                    *)
(***************************************************************************)
\* the store calls that name one video
VideoStoreCalls == {"saveVideoChats", "deleteVideoChat", "clearVideoChats"}

\* the ids of the sessions stored for a video
StoredSessionIds(stored, videoId) ==
  { getVideoChats(stored, videoId)[i].id : i \in DOMAIN getVideoChats(stored, videoId) }

\* every video but the one the last call named is stored as before
OtherVideosUnchanged ==
  \A other \in VideoIds \ {probe.videoId} :
    /\ HasKey(getAllVideoChats(localStorage), other) = HasKey(getAllVideoChats(probe.before), other)
    /\ getVideoChats(localStorage, other) = getVideoChats(probe.before, other)

\* what the last call on one video leaves alone whatever was stored
StoreFrame ==
  /\ probe.op \in VideoStoreCalls => OtherVideosUnchanged
  /\ probe.op = "clearVideoChats" =>
       /\ ~HasKey(getAllVideoChats(localStorage), probe.videoId)
       /\ getVideoChats(localStorage, probe.videoId) = <<>>
  /\ probe.op = "deleteVideoChat" =>
       getVideoChats(localStorage, probe.videoId)
         = SelectSeq(getVideoChats(probe.before, probe.videoId),
                     LAMBDA session : session.id # probe.sessionId)

SentencesOf(content) ==
  LET pieces == SelectSeq(SplitSentences(content), LAMBDA s : Len(trim(s)) > 0)
  IN  [ i \in 1..Len(pieces) |-> trim(pieces[i]) ]

\* the second sentence is one the post-processing may keep
KeepsSecond(sentences) ==
  /\ Len(sentences) >= 2
  /\ Len(sentences[2]) < BriefSentenceLimit
  /\ isImportantSentence(sentences[2])

\* C22: brief-mode post-processing of any composed content returns the
\* first sentence, followed by the second sentence only if that sentence is
\* under 100 characters and contains an importance keyword, and nothing
\* else; every later sentence is discarded, and applying the
\* post-processing a second time changes nothing.
C22_BriefKeepsFirstAndImportantSecond ==
  probe.op = "makeBriefContent" =>
    LET sentences == SentencesOf(probe.content)
    IN  /\ Len(sentences) >= 1 =>
             SentencesOf(probe.result)
               = IF KeepsSecond(sentences) THEN << sentences[1], sentences[2] >>
                                           ELSE << sentences[1] >>
        /\ probe.again = probe.result

(***************************************************************************)
(* The sessions of the chat view.                                          *)
(***************************************************************************)
\* no two sessions of a list have the same id
DistinctIds(sessions) ==
  \A i, j \in DOMAIN sessions : i # j => sessions[i].id # sessions[j].id

\* C23: in every reachable state the sessions of one video have pairwise
\* distinct ids, in memory and persisted, including sessions created by
\* successive 'new chat' actions within the same clock millisecond and a
\* session recreated by 'clear all video chats'; hence delete, switch and
\* message append each affect exactly one session.
C23_SessionIdsDistinct ==
  /\ DistinctIds(chatSessions)
  /\ \A k \in DOMAIN getAllVideoChats(localStorage) :
       DistinctIds(getAllVideoChats(localStorage)[k].sessions)

\* every user message of the list is directly followed by an assistant message
Answered(messages) ==
  \A i \in DOMAIN messages :
    messages[i].type = "user" =>
      i < Len(messages) /\ messages[i + 1].type = "assistant"

\* C24: every accepted send runs to completion: provided the generation
\* call settles, the typing flag eventually returns to false and exactly one
\* assistant message (the reply, or the apology message when generation
\* throws) is appended directly after the user message, in the session that
\* was current when the message was sent; no user message is left
\* permanently without an assistant message after it.  Stated on the states
\* in which no send is waiting for its reply: there the typing flag is false
\* and every user message, in memory and persisted, has its assistant
\* message after it.
C24_EverySendIsAnswered ==
  pending = NoSend =>
    /\ ~isTyping
    /\ \A i \in DOMAIN chatSessions : Answered(chatSessions[i].messages)
    /\ \A session \in PersistedSessions : Answered(session.messages)

\* C25: after the chat view has initialised, currentSessionId always names
\* a session present in the in-memory session list, after any sequence of
\* new chat, switch chat, delete chat (of the current or another session),
\* clear current chat and clear all video chats.
C25_CurrentSessionExists ==
  currentView = "chat" =>
    \E i \in DOMAIN chatSessions : chatSessions[i].id = currentSessionId

\* C27: 'clear current chat' leaves the current session with exactly one
\* message, the assistant greeting, and messages that were in the session
\* before the clear never reappear in it afterwards, also when the clear
\* happens while a reply to an earlier send is still awaited.
C27_ClearedMessagesStayCleared ==
  probe.op = "clearCurrentChat" =>
    /\ Len(probe.left) = 1
    /\ probe.left[1].type = "assistant"
    /\ ( currentView = "chat" /\ videoData.id = probe.videoId ) =>
         \A i \in DOMAIN chatSessions :
           chatSessions[i].id = probe.sessionId =>
             \A j \in DOMAIN chatSessions[i].messages :
               chatSessions[i].messages[j] \notin probe.removed

(***************************************************************************)
(* Overlapping submits: what is displayed, and for which video.            *)
(***************************************************************************)

\* the context the AIService holds is the one handleVideoSubmit sets for the
\* video: its title, its transcript and segments, and a URL of that video
ContextIsOf(video) ==
  /\ videoTitle = video.title
  /\ segments = MakeSegments(transcriptTexts(video.id))
  /\ transcript = FullText(MakeSegments(transcriptTexts(video.id)))
  /\ extractVideoId(videoUrl) = video.id

\* C26: whenever the chat view is displayed, videoData is non-null and the
\* video context of the AIService (title, transcript, segments, url) is that
\* of the video of videoData, for every interleaving of submits, overlapping
\* ones included, failures and Back actions
C26_ChatContextIsOfDisplayedVideo ==
  currentView = "chat" => videoData # NoVideo /\ ContextIsOf(videoData)

\* the chat of one video is displayed while a submit of the other video is
\* still being transcribed, and both videos are in the history
C26_Witness ==
  /\ currentView = "chat"
  /\ videoData # NoVideo
  /\ ContextIsOf(videoData)
  /\ \E k \in DOMAIN flows : flows[k].stage = "transcribe" /\ flows[k].videoId # videoData.id
  /\ localStorage # null
  /\ Len(getAllVideosWithChatsLanding(localStorage)) = 2

\* the step App.handleBackToLanding takes from the chat view
BackStep == currentView' = "landing" /\ videoData' = NoVideo

\* C28: once the chat view is displayed for a video, the view changes only
\* through the Back action: no timer and no submit started earlier moves
\* the application out of the chat view or replaces the displayed video
C28_ChatChangesOnlyByBack ==
  [][ currentView = "chat" =>
        \/ currentView' = "chat" /\ videoData' = videoData
        \/ BackStep ]_vars

\* C28, the timer alone: the delayed return of a failed submit does not
\* leave a chat view displayed by now
C28_TimerLeavesChat ==
  [][ currentView = "chat" => ~(currentView' = "landing" /\ videoData' # NoVideo) ]_vars

\* C28, the other submit alone: the video displayed in the chat view is not
\* replaced by another one
C28_VideoReplaced ==
  [][ (currentView = "chat" /\ currentView' = "chat") => videoData' = videoData ]_vars

(***************************************************************************)
(* The processing indicator.                                               *)
(***************************************************************************)

\* a VideoProcessor is mounted before and after the step
ProcessorStays == steps # NoSteps /\ steps' # NoSteps

\* how far a status is: pending, processing, then completed or error
StatusRank(status) ==
  CASE status = "pending"    -> 0
    [] status = "processing" -> 1
    [] OTHER                 -> 2

\* the steps with status 'completed'
CompletedSteps(st) == { i \in DOMAIN st : st[i] = "completed" }

\* at most one step is processing, every step before it is completed and
\* every step after it is pending
StepsInOrder ==
  \A i \in DOMAIN steps :
    steps[i] = "processing" =>
      /\ \A j \in DOMAIN steps : j < i => steps[j] = "completed"
      /\ \A j \in DOMAIN steps : j > i => steps[j] = "pending"

\* a status only moves forward, and only a processing step becomes an error
StatusMovesForward ==
  ProcessorStays =>
    \A i \in DOMAIN steps :
      /\ StatusRank(steps'[i]) >= StatusRank(steps[i])
      /\ steps[i] \in { "completed", "error" } => steps'[i] = steps[i]
      /\ (steps'[i] = "error" /\ steps[i] # "error") => steps[i] = "processing"

\* a step of the model completes at most one step of the indicator
OneStepPerTick ==
  ProcessorStays => Cardinality(CompletedSteps(steps') \ CompletedSteps(steps)) <= 1

\* when an error is reported the processing step becomes 'error', and with
\* an error reported or shown no status changes
ErrorStopsSteps ==
  ProcessorStays =>
    /\ (processingError = NoProcessingError /\ processingError' # NoProcessingError)
         => steps' = markError(steps)
    /\ (processingError # NoProcessingError \/ hasError(steps)) => steps' = steps

\* C29: in every state of the processing indicator at most one step is
\* 'processing', every step before it is 'completed' and every step after
\* it is 'pending'; a status only moves forward, each timer tick completes
\* at most one step, and once an error is reported the processing step
\* becomes 'error' and no step changes status afterwards
C29_StepsAdvanceOneAtATime ==
  /\ [](StepsInOrder /\ (processingError # NoProcessingError => findStatus(steps, "processing") = 0))
  /\ [][StatusMovesForward /\ OneStepPerTick /\ ErrorStopsSteps]_vars

\* C29 without the tick clause
C29_StepsInOrderAndForward ==
  /\ [](StepsInOrder /\ (processingError # NoProcessingError => findStatus(steps, "processing") = 0))
  /\ [][StatusMovesForward /\ ErrorStopsSteps]_vars

(***************************************************************************)
(* The two copies of VideoChatStorage.                                     *)
(***************************************************************************)

\* what both copies of getAllVideosWithChats return for a video
IndexEntry(item) ==
  [ videoId |-> item.videoId, videoTitle |-> item.videoTitle,
    chatCount |-> item.chatCount, lastActivity |-> item.lastActivity ]

\* the list of the landing page, cut down to the fields the chat view has
LandingIndex(stored) ==
  [ k \in DOMAIN getAllVideosWithChatsLanding(stored) |->
      IndexEntry(getAllVideosWithChatsLanding(stored)[k]) ]

\* C30: the two copies of VideoChatStorage agree on every persisted index:
\* getAllVideosWithChats returns the same videos in the same order with the
\* same videoId, videoTitle, chatCount and lastActivity in both, and
\* clearVideoChats(v) has the same effect on the index in both
C30_StoreCopiesAgree ==
  /\ LandingIndex(localStorage) = getAllVideosWithChats(localStorage)
  /\ \A v \in VideoIds :
       /\ clearVideoChatsLanding(localStorage, v) = clearVideoChats(localStorage, v)
       /\ LandingIndex(clearVideoChatsLanding(localStorage, v))
            = getAllVideosWithChats(clearVideoChats(localStorage, v))

\* both videos are stored, the one whose key comes second has the later
\* session and so is listed first, a user message is counted, and clearing
\* a video shortens the list
C30_Witness ==
  /\ localStorage # null
  /\ Len(getAllVideosWithChats(localStorage)) = 2
  /\ Len(getAllVideosWithChatsLanding(localStorage)) = 2
  /\ getAllVideosWithChatsLanding(localStorage)[1].videoId = getAllVideoChats(localStorage)[2].videoId
  /\ getAllVideosWithChatsLanding(localStorage)[1].lastActivity
       > getAllVideosWithChatsLanding(localStorage)[2].lastActivity
  /\ getAllVideosWithChatsLanding(localStorage)[1].totalMessages > 0
  /\ \A v \in VideoIds : Len(getAllVideosWithChats(clearVideoChats(localStorage, v))) = 1

====
